---- MODULE Spec2Model ----
(***************************************************************************)
(* shebe log-analysis scripts.                                             *)
(*                                                                         *)
(*   scripts/analyze-claude-errors.py   ShebeErrorAnalyzer, main()         *)
(*   scripts/analyze-serena-context.py  ContextAnalyzer, main()            *)
(*                                                                         *)
(* A Python str is a sequence of one-character strings, so that the        *)
(* regular expressions, strip(), split() and lower() of the scripts are    *)
(* computed character by character.  A Python dict is a function whose     *)
(* DOMAIN is its key set; a list is a sequence.                            *)
(***************************************************************************)
EXTENDS Integers, Sequences, FiniteSets, TLC

VARIABLES
    prog,        \* what runs: "errors" or "context" (a script's main()), or one method
    pc,          \* position in it
    exists,      \* debug_dir.exists()
    nfiles,      \* number of *.txt documents visited so far
    nlines,      \* number of lines read from them so far
    corpus,      \* analyze-claude-errors: the lines read so far, in order
    result,      \* ShebeErrorAnalyzer.result : AnalysisResult
    groupings,   \* number of runs of _categorize_errors on result
    cur,         \* ContextAnalyzer.analyze: stats, what _analyze_session last returned
    sessions,    \* ContextAnalyzer.sessions
    report,      \* what ContextAnalyzer.analyze() returned
    exc,         \* the exception that ended the run, or "none"
    out,         \* what main() has printed and written, in order
    arg,         \* the str a single method is applied to
    ret          \* what that method returned, or the AnalysisResult it left

vars == <<prog, pc, exists, nfiles, nlines, corpus, result, groupings, cur, sessions,
          report, exc, out, arg, ret>>

(***************************************************************************)
(* Character classes of Python's re and str for the ASCII characters.      *)
(***************************************************************************)
LowerLetters ==
    <<"a", "b", "c", "d", "e", "f", "g", "h", "i", "j", "k", "l", "m",
      "n", "o", "p", "q", "r", "s", "t", "u", "v", "w", "x", "y", "z">>
UpperLetters ==
    <<"A", "B", "C", "D", "E", "F", "G", "H", "I", "J", "K", "L", "M",
      "N", "O", "P", "Q", "R", "S", "T", "U", "V", "W", "X", "Y", "Z">>
Digits == {"0", "1", "2", "3", "4", "5", "6", "7", "8", "9"}
\* \w
WordChars ==
    {LowerLetters[i] : i \in 1..26} \cup {UpperLetters[i] : i \in 1..26}
        \cup Digits \cup {"_"}
\* the ASCII control characters 11 (VT), 28 (FS), 29 (GS), 30 (RS) and 31 (US),
\* which str.isspace() holds true of as well
Controls == <<"", "", "", "", "">>
\* str.isspace() for the ASCII characters: what str.strip() and str.split()
\* take for whitespace
WhiteSpace == {" ", "\t", "\n", "\r", "\f"} \cup {Controls[i] : i \in 1..5}
NL == "\n"
\* None, where a str is expected
None == <<"None">>

Min(S) == CHOOSE m \in S : \A n \in S : m <= n

\* the lower-case letter of each upper-case letter
ToLower ==
    [c \in {UpperLetters[i] : i \in 1..26} |->
        LowerLetters[CHOOSE i \in 1..26 : UpperLetters[i] = c]]
\* c.lower()
LowerChar(c) == IF c \in DOMAIN ToLower THEN ToLower[c] ELSE c
\* s.lower()
Lower(s) == [i \in 1..Len(s) |-> LowerChar(s[i])]

\* s[i-1:].startswith(lit), i counted from 1
StartsAt(s, i, lit) ==
    /\ i >= 1
    /\ i + Len(lit) - 1 <= Len(s)
    /\ \A k \in 1..Len(lit) : s[i + k - 1] = lit[k]
\* the first position >= from where lit occurs in s, or 0
Find(s, lit, from) ==
    LET hits == {i \in from..(Len(s) - Len(lit) + 1) :
                    s[i] = lit[1] /\ StartsAt(s, i, lit)}
    IN  IF hits = {} THEN 0 ELSE Min(hits)
\* lit in s
Contains(s, lit) == Find(s, lit, 1) # 0
\* the first position >= from of a character of set C, or Len(s)+1
NextIn(s, from, C) ==
    LET hits == {i \in from..Len(s) : s[i] \in C}
    IN  IF hits = {} THEN Len(s) + 1 ELSE Min(hits)
\* the end (exclusive) of the longest run of characters of C starting at from
RunEnd(s, from, C) ==
    LET stops == {i \in from..Len(s) : s[i] \notin C}
    IN  IF stops = {} THEN Len(s) + 1 ELSE Min(stops)
\* s[a-1:b-1]
Slice(s, a, b) == SubSeq(s, a, b - 1)

\* a slip: the captured query used as it is
StripNothing(s) == s
\* s.strip()
Strip(s) ==
    LET keep == {i \in 1..Len(s) : s[i] \notin WhiteSpace}
    IN  IF keep = {} THEN <<>>
        ELSE SubSeq(s, Min(keep), Len(s) - Min({Len(s) - i : i \in keep}))
\* s.split(): the whitespace-delimited tokens
RECURSIVE SplitWsFrom(_, _)
SplitWsFrom(s, from) ==
    LET a == RunEnd(s, from, WhiteSpace)
    IN  IF a > Len(s) THEN <<>>
        ELSE LET b == NextIn(s, a, WhiteSpace)
             IN  <<Slice(s, a, b)>> \o SplitWsFrom(s, b)
SplitWs(s) == SplitWsFrom(s, 1)
\* s.split('\n')
RECURSIVE SplitLinesFrom(_, _)
SplitLinesFrom(s, from) ==
    LET b == NextIn(s, from, {NL})
    IN  IF b > Len(s) THEN <<Slice(s, from, b)>>
        ELSE <<Slice(s, from, b)>> \o SplitLinesFrom(s, b + 1)
SplitLines(s) == SplitLinesFrom(s, 1)
\* '\n'.join(ls)
RECURSIVE JoinLines(_)
JoinLines(ls) ==
    IF ls = <<>> THEN <<>>
    ELSE IF Len(ls) = 1 THEN ls[1]
    ELSE ls[1] \o <<NL>> \o JoinLines(Tail(ls))

(***************************************************************************)
(* The literal texts of the patterns and messages.                         *)
(***************************************************************************)
\* the literal pieces of the regexes of the Pattern Registry
RE ==
     \* "Tool '"
    [Tool_q |-> <<"T", "o", "o", "l", " ", "'">>,
     \* "' failed"
     q_failed |-> <<"'", " ", "f", "a", "i", "l", "e", "d">>,
     \* ': '
     colon_sp |-> <<":", " ">>,
     \* 'Tool mcp__shebe__'
     Tool_mcp_shebe |-> <<"T", "o", "o", "l", " ", "m", "c", "p", "_", "_", "s", "h", "e",
                          "b", "e", "_", "_">>,
     \* ' not found'
     not_found |-> <<" ", "n", "o", "t", " ", "f", "o", "u", "n", "d">>,
     \* 'Syntax Error: '
     Syntax_Error |-> <<"S", "y", "n", "t", "a", "x", " ", "E", "r", "r", "o", "r", ":", " ">>,
     \* "Field does not exist: '"
     Field_not_exist |-> <<"F", "i", "e", "l", "d", " ", "d", "o", "e", "s", " ", "n", "o",
                           "t", " ", "e", "x", "i", "s", "t", ":", " ", "'">>,
     \* "Session '"
     Session_q |-> <<"S", "e", "s", "s", "i", "o", "n", " ", "'">>,
     \* "' already exists"
     q_already_exists |-> <<"'", " ", "a", "l", "r", "e", "a", "d", "y", " ", "e", "x",
                            "i", "s", "t", "s">>,
     \* "' uses old schema version "
     q_old_schema |-> <<"'", " ", "u", "s", "e", "s", " ", "o", "l", "d", " ", "s", "c",
                        "h", "e", "m", "a", " ", "v", "e", "r", "s", "i", "o", "n", " ">>,
     \* "File '"
     File_q |-> <<"F", "i", "l", "e", " ", "'">>,
     \* "' not indexed in session '"
     q_not_indexed |-> <<"'", " ", "n", "o", "t", " ", "i", "n", "d", "e", "x", "e", "d",
                         " ", "i", "n", " ", "s", "e", "s", "s", "i", "o", "n", " ", "'">>]
\* the substrings the analyzer tests for and the text it writes
Sub ==
     \* 'Unsupported query'
    [Unsupported_query |-> <<"U", "n", "s", "u", "p", "p", "o", "r", "t", "e", "d", " ",
                             "q", "u", "e", "r", "y">>,
     \* 'exceeds maximum allowed tokens'
     exceeds_max |-> <<"e", "x", "c", "e", "e", "d", "s", " ", "m", "a", "x", "i", "m",
                       "u", "m", " ", "a", "l", "l", "o", "w", "e", "d", " ", "t", "o",
                       "k", "e", "n", "s">>,
     \* 'Session must contain only'
     Session_must |-> <<"S", "e", "s", "s", "i", "o", "n", " ", "m", "u", "s", "t", " ",
                        "c", "o", "n", "t", "a", "i", "n", " ", "o", "n", "l", "y">>,
     \* '@Router'
     at_Router |-> <<"@", "R", "o", "u", "t", "e", "r">>,
     \* ':='
     assign |-> <<":", "=">>,
     \* 'shebe'
     shebe |-> <<"s", "h", "e", "b", "e">>,
     \* 'Server not running when '
     Server_not_running |-> <<"S", "e", "r", "v", "e", "r", " ", "n", "o", "t", " ", "r",
                              "u", "n", "n", "i", "n", "g", " ", "w", "h", "e", "n", " ">>,
     \* ' was called'
     was_called |-> <<" ", "w", "a", "s", " ", "c", "a", "l", "l", "e", "d">>,
     \* ':...'
     dots |-> <<":", ".", ".", ".">>]
\* the category labels and the prefixes of the composite categories
Cat ==
     \* 'tool_not_found'
    [tool_not_found |-> <<"t", "o", "o", "l", "_", "n", "o", "t", "_", "f", "o", "u", "n",
                          "d">>,
     \* 'url_pattern'
     url_pattern |-> <<"u", "r", "l", "_", "p", "a", "t", "t", "e", "r", "n">>,
     \* 'annotation'
     annotation |-> <<"a", "n", "n", "o", "t", "a", "t", "i", "o", "n">>,
     \* 'assignment'
     assignment |-> <<"a", "s", "s", "i", "g", "n", "m", "e", "n", "t">>,
     \* 'field_prefix'
     field_prefix |-> <<"f", "i", "e", "l", "d", "_", "p", "r", "e", "f", "i", "x">>,
     \* 'special_chars'
     special_chars |-> <<"s", "p", "e", "c", "i", "a", "l", "_", "c", "h", "a", "r", "s">>,
     \* 'complex_phrase'
     complex_phrase |-> <<"c", "o", "m", "p", "l", "e", "x", "_", "p", "h", "r", "a", "s",
                          "e">>,
     \* 'other'
     other |-> <<"o", "t", "h", "e", "r">>,
     \* 'session_exists'
     session_exists |-> <<"s", "e", "s", "s", "i", "o", "n", "_", "e", "x", "i", "s", "t",
                          "s">>,
     \* 'schema_mismatch'
     schema_mismatch |-> <<"s", "c", "h", "e", "m", "a", "_", "m", "i", "s", "m", "a", "t",
                           "c", "h">>,
     \* 'file_not_indexed'
     file_not_indexed |-> <<"f", "i", "l", "e", "_", "n", "o", "t", "_", "i", "n", "d",
                            "e", "x", "e", "d">>,
     \* 'unsupported_query'
     unsupported_query |-> <<"u", "n", "s", "u", "p", "p", "o", "r", "t", "e", "d", "_",
                             "q", "u", "e", "r", "y">>,
     \* 'response_too_large'
     response_too_large |-> <<"r", "e", "s", "p", "o", "n", "s", "e", "_", "t", "o", "o",
                              "_", "l", "a", "r", "g", "e">>,
     \* 'invalid_session_name'
     invalid_session_name |-> <<"i", "n", "v", "a", "l", "i", "d", "_", "s", "e", "s", "s",
                                "i", "o", "n", "_", "n", "a", "m", "e">>,
     \* 'unknown'
     unknown |-> <<"u", "n", "k", "n", "o", "w", "n">>,
     \* 'query_'
     query_ |-> <<"q", "u", "e", "r", "y", "_">>,
     \* 'session_'
     session_ |-> <<"s", "e", "s", "s", "i", "o", "n", "_">>,
     \* 'file_'
     file_ |-> <<"f", "i", "l", "e", "_">>]
\* the literals of ContextAnalyzer
Ctx ==
     \* 'MCP server "'
    [MCP_server_q |-> <<"M", "C", "P", " ", "s", "e", "r", "v", "e", "r", " ", "\"">>,
     \* '": Calling MCP tool: '
     q_Calling |-> <<"\"", ":", " ", "C", "a", "l", "l", "i", "n", "g", " ", "M", "C", "P",
                     " ", "t", "o", "o", "l", ":", " ">>,
     \* 'executePreToolHooks called for tool: '
     executePreToolHooks |-> <<"e", "x", "e", "c", "u", "t", "e", "P", "r", "e", "T", "o",
                               "o", "l", "H", "o", "o", "k", "s", " ", "c", "a", "l", "l",
                               "e", "d", " ", "f", "o", "r", " ", "t", "o", "o", "l", ":",
                               " ">>,
     \* 'serena'
     serena |-> <<"s", "e", "r", "e", "n", "a">>,
     \* 'shebe'
     shebe |-> <<"s", "h", "e", "b", "e">>,
     \* 'serena__'
     serena__ |-> <<"s", "e", "r", "e", "n", "a", "_", "_">>,
     \* 'shebe__'
     shebe__ |-> <<"s", "h", "e", "b", "e", "_", "_">>,
     \* 'Read'
     Read |-> <<"R", "e", "a", "d">>,
     \* 'Write'
     Write |-> <<"W", "r", "i", "t", "e">>,
     \* 'Edit'
     Edit |-> <<"E", "d", "i", "t">>,
     \* 'Glob'
     Glob |-> <<"G", "l", "o", "b">>,
     \* 'Grep'
     Grep |-> <<"G", "r", "e", "p">>,
     \* 'Bash'
     Bash |-> <<"B", "a", "s", "h">>,
     \* 'Task'
     Task |-> <<"T", "a", "s", "k">>]
\* the tool a failure message is attributed to
S_search_code ==
    <<"s", "e", "a", "r", "c", "h", "_", "c", "o", "d", "e">>

(***************************************************************************)
(* Pattern Registry of ShebeErrorAnalyzer.  P(s) is P.search(s): the       *)
(* leftmost match, as [ok, g1, g2] with g1, g2 the captured groups.        *)
(***************************************************************************)
NoMatch == [ok |-> FALSE]
\* the positions of s where a match starting with lit can start
Candidates(s, lit) == {i \in 1..Len(s) : s[i] = lit[1]}

\* r'Tool \'(\w+)\' failed.*?: (.+?)(?:\n|$)' tried at position i
ToolFailAt(s, i) ==
    LET p  == i + Len(RE.Tool_q)
        j  == RunEnd(s, p, WordChars)
        k  == j + Len(RE.q_failed)
        nl == NextIn(s, k, {NL})
        \* .*? stops at the first ': ' that has a character of the line after it
        cs == {c \in k..(nl - 1) :
                 /\ StartsAt(s, c, RE.colon_sp)
                 /\ c + 2 <= Len(s)
                 /\ s[c + 2] # NL}
    IN  IF /\ StartsAt(s, i, RE.Tool_q)
           /\ j > p
           /\ StartsAt(s, j, RE.q_failed)
           /\ cs # {}
        THEN LET c == Min(cs)
             IN  [ok |-> TRUE, g1 |-> Slice(s, p, j),
                  g2 |-> Slice(s, c + 2, NextIn(s, c + 2, {NL}))]
        ELSE NoMatch
TOOL_FAIL_PATTERN(s) ==
    LET hits == {i \in Candidates(s, RE.Tool_q) : ToolFailAt(s, i).ok}
    IN  IF hits = {} THEN NoMatch ELSE ToolFailAt(s, Min(hits))

\* r'Syntax Error: (.+?)(?:\"|$)' tried at position i
QuerySyntaxAt(s, i) ==
    LET p == i + Len(RE.Syntax_Error)
        e == NextIn(s, p + 1, {"\"", NL})
    IN  IF /\ StartsAt(s, i, RE.Syntax_Error)
           /\ p <= Len(s)
           /\ s[p] # NL
           /\ (e > Len(s) \/ s[e] = "\"" \/ e = Len(s))
        THEN [ok |-> TRUE, g1 |-> Slice(s, p, e)]
        ELSE NoMatch
QUERY_SYNTAX_PATTERN(s) ==
    LET hits == {i \in Candidates(s, RE.Syntax_Error) : QuerySyntaxAt(s, i).ok}
    IN  IF hits = {} THEN NoMatch ELSE QuerySyntaxAt(s, Min(hits))

\* r'Field does not exist: \'(\w+)\'' tried at position i
FieldNotExistAt(s, i) ==
    LET p == i + Len(RE.Field_not_exist)
        j == RunEnd(s, p, WordChars)
    IN  IF /\ StartsAt(s, i, RE.Field_not_exist)
           /\ j > p
           /\ StartsAt(s, j, <<"'">>)
        THEN [ok |-> TRUE, g1 |-> Slice(s, p, j)]
        ELSE NoMatch
FIELD_NOT_EXIST_PATTERN(s) ==
    LET hits == {i \in Candidates(s, RE.Field_not_exist) : FieldNotExistAt(s, i).ok}
    IN  IF hits = {} THEN NoMatch ELSE FieldNotExistAt(s, Min(hits))

\* r'Session \'([^\']+)\' already exists' tried at position i
SessionExistsAt(s, i) ==
    LET p == i + Len(RE.Session_q)
        j == NextIn(s, p, {"'"})
    IN  IF /\ StartsAt(s, i, RE.Session_q)
           /\ j > p
           /\ StartsAt(s, j, RE.q_already_exists)
        THEN [ok |-> TRUE, g1 |-> Slice(s, p, j)]
        ELSE NoMatch
SESSION_EXISTS_PATTERN(s) ==
    LET hits == {i \in Candidates(s, RE.Session_q) : SessionExistsAt(s, i).ok}
    IN  IF hits = {} THEN NoMatch ELSE SessionExistsAt(s, Min(hits))

\* r'Session \'([^\']+)\' uses old schema version (\d+)' tried at position i
OldSchemaAt(s, i) ==
    LET p == i + Len(RE.Session_q)
        j == NextIn(s, p, {"'"})
        d == j + Len(RE.q_old_schema)
        e == RunEnd(s, d, Digits)
    IN  IF /\ StartsAt(s, i, RE.Session_q)
           /\ j > p
           /\ StartsAt(s, j, RE.q_old_schema)
           /\ e > d
        THEN [ok |-> TRUE, g1 |-> Slice(s, p, j), g2 |-> Slice(s, d, e)]
        ELSE NoMatch
OLD_SCHEMA_PATTERN(s) ==
    LET hits == {i \in Candidates(s, RE.Session_q) : OldSchemaAt(s, i).ok}
    IN  IF hits = {} THEN NoMatch ELSE OldSchemaAt(s, Min(hits))

\* r'File \'([^\']+)\' not indexed in session \'([^\']+)\'' tried at position i
FileNotIndexedAt(s, i) ==
    LET p == i + Len(RE.File_q)
        j == NextIn(s, p, {"'"})
        q == j + Len(RE.q_not_indexed)
        e == NextIn(s, q, {"'"})
    IN  IF /\ StartsAt(s, i, RE.File_q)
           /\ j > p
           /\ StartsAt(s, j, RE.q_not_indexed)
           /\ e > q
           /\ e <= Len(s)
        THEN [ok |-> TRUE, g1 |-> Slice(s, p, j), g2 |-> Slice(s, q, e)]
        ELSE NoMatch
FILE_NOT_INDEXED_PATTERN(s) ==
    LET hits == {i \in Candidates(s, RE.File_q) : FileNotIndexedAt(s, i).ok}
    IN  IF hits = {} THEN NoMatch ELSE FileNotIndexedAt(s, Min(hits))

\* r'Tool (mcp__shebe__\w+) not found' tried at position i
ToolNotFoundAt(s, i) ==
    LET p == i + Len(RE.Tool_mcp_shebe)
        j == RunEnd(s, p, WordChars)
    IN  IF /\ StartsAt(s, i, RE.Tool_mcp_shebe)
           /\ j > p
           /\ StartsAt(s, j, RE.not_found)
        THEN [ok |-> TRUE, g1 |-> Slice(s, i + 5, j)]
        ELSE NoMatch
TOOL_NOT_FOUND_PATTERN(s) ==
    LET hits == {i \in Candidates(s, RE.Tool_mcp_shebe) : ToolNotFoundAt(s, i).ok}
    IN  IF hits = {} THEN NoMatch ELSE ToolNotFoundAt(s, Min(hits))

(***************************************************************************)
(* ShebeErrorAnalyzer._classify_query_error                                *)
(***************************************************************************)
\* re.search(r'/\w+/\{?\w+\}?', query)
UrlLike(query) ==
    \E i \in 1..Len(query) :
        LET j == RunEnd(query, i + 1, WordChars)
        IN  /\ query[i] = "/"
            /\ j > i + 1
            /\ StartsAt(query, j, <<"/">>)
            /\ \/ (j + 1 <= Len(query) /\ query[j + 1] \in WordChars)
               \/ /\ StartsAt(query, j + 1, <<"{">>)
                  /\ j + 2 <= Len(query)
                  /\ query[j + 2] \in WordChars
\* re.search(r'^\w+:', query)
FieldPrefixed(query) ==
    LET j == RunEnd(query, 1, WordChars)
    IN  j > 1 /\ StartsAt(query, j, <<":">>)
\* re.search(r'[:\[\]{}]', query)
HasSpecialChars(query) ==
    \E i \in 1..Len(query) : query[i] \in {":", "[", "]", "{", "}"}

\* what _classify_query_error yields when it raises IndexError instead of returning
Raised == <<"raise IndexError">>
\* line 236 is  ('@Router' in query or '@' in query.split()[0]) if query else ''
\* query.split()[0] raises IndexError when query has no token
AnnotationRaises(query) ==
    /\ query # <<>>
    /\ ~Contains(query, Sub.at_Router)
    /\ SplitWs(query) = <<>>
\* the annotation test looking for '@' at the start of any token
AnnotationAnyToken(query) ==
    /\ query # <<>>
    /\ \/ Contains(query, Sub.at_Router)
       \/ \E k \in 1..Len(SplitWs(query)) : SplitWs(query)[k][1] = "@"
AnnotationTest(query) ==
    /\ query # <<>>
    /\ \/ Contains(query, Sub.at_Router)
       \/ Contains(SplitWs(query)[1], <<"@">>)

_classify_query_error(query) ==
    IF UrlLike(query) THEN Cat.url_pattern
    ELSE IF AnnotationRaises(query) THEN Raised
    ELSE IF AnnotationTest(query) THEN Cat.annotation
    ELSE IF Contains(query, Sub.assign) THEN Cat.assignment
    ELSE IF FieldPrefixed(query) THEN Cat.field_prefix
    ELSE IF HasSpecialChars(query) THEN Cat.special_chars
    ELSE IF Len(SplitWs(query)) > 3 THEN Cat.complex_phrase
    ELSE Cat.other

(***************************************************************************)
(* dict and list helpers                                                   *)
(***************************************************************************)
\* d[k] = v
Put(d, k, v) == [x \in DOMAIN d \cup {k} |-> IF x = k THEN v ELSE d[x]]
\* d.get(k, default)
Get(d, k, default) == IF k \in DOMAIN d THEN d[k] ELSE default
\* defaultdict(int): d[k] += 1
Inc(d, k) == Put(d, k, Get(d, k, 0) + 1)
\* defaultdict(list): d[k].append(v)
AppendTo(d, k, v) == Put(d, k, Append(Get(d, k, <<>>), v))
\* xs[:n]
Take(xs, n) == SubSeq(xs, 1, IF Len(xs) < n THEN Len(xs) ELSE n)

(***************************************************************************)
(* AnalysisResult and the ShebeErrorAnalyzer methods that update it        *)
(***************************************************************************)
AnalysisResult ==
    [total_errors |-> 0, by_tool |-> <<>>, by_category |-> <<>>,
     query_syntax_errors |-> <<>>, session_errors |-> <<>>,
     file_errors |-> <<>>, other_errors |-> <<>>]

\* _categorize_error propagates the IndexError of _classify_query_error
CategorizeRaises(error_msg) ==
    LET syntax_match == QUERY_SYNTAX_PATTERN(error_msg)
    IN  /\ syntax_match.ok
        /\ _classify_query_error(Strip(syntax_match.g1)) = Raised

\* the record each rule of _categorize_error appends
AddSyntaxError(res, tool_name, error_msg) ==
    LET query == Strip(QUERY_SYNTAX_PATTERN(error_msg).g1)
    IN  [res EXCEPT !.query_syntax_errors = Append(@,
            [tool |-> tool_name, query |-> query,
             category |-> _classify_query_error(query)])]
AddFieldNotExist(res, tool_name, error_msg) ==
    LET field_name == FIELD_NOT_EXIST_PATTERN(error_msg).g1
    IN  [res EXCEPT !.query_syntax_errors = Append(@,
            [tool |-> tool_name, query |-> field_name \o Sub.dots,
             category |-> Cat.field_prefix, field |-> field_name])]
AddSessionExists(res, tool_name, error_msg) ==
    [res EXCEPT !.session_errors = Append(@,
        [tool |-> tool_name, session |-> SESSION_EXISTS_PATTERN(error_msg).g1,
         category |-> Cat.session_exists])]
AddOldSchema(res, tool_name, error_msg) ==
    [res EXCEPT !.session_errors = Append(@,
        [tool |-> tool_name, session |-> OLD_SCHEMA_PATTERN(error_msg).g1,
         category |-> Cat.schema_mismatch,
         old_version |-> OLD_SCHEMA_PATTERN(error_msg).g2])]
AddFileNotIndexed(res, tool_name, error_msg) ==
    [res EXCEPT !.file_errors = Append(@,
        [tool |-> tool_name, file |-> FILE_NOT_INDEXED_PATTERN(error_msg).g1,
         session |-> FILE_NOT_INDEXED_PATTERN(error_msg).g2,
         category |-> Cat.file_not_indexed])]
AddUnsupportedQuery(res, tool_name, error_msg) ==
    [res EXCEPT !.query_syntax_errors = Append(@,
        [tool |-> tool_name, category |-> Cat.unsupported_query,
         message |-> error_msg])]
AddResponseTooLarge(res, tool_name, error_msg) ==
    [res EXCEPT !.file_errors = Append(@,
        [tool |-> tool_name, category |-> Cat.response_too_large,
         message |-> error_msg])]
AddInvalidSessionName(res, tool_name, error_msg) ==
    [res EXCEPT !.session_errors = Append(@,
        [tool |-> tool_name, category |-> Cat.invalid_session_name])]
AddOther(res, tool_name, error_msg) ==
    [res EXCEPT !.other_errors = Append(@,
        [tool |-> tool_name, message |-> error_msg])]

\* a slip in the rule order: the 'Unsupported query' test right after the syntax rule
CategorizeUnsupportedEarly(res, tool_name, error_msg) ==
    IF QUERY_SYNTAX_PATTERN(error_msg).ok THEN
        IF CategorizeRaises(error_msg) THEN res
        ELSE AddSyntaxError(res, tool_name, error_msg)
    ELSE IF Contains(error_msg, Sub.Unsupported_query) THEN
        AddUnsupportedQuery(res, tool_name, error_msg)
    ELSE IF FIELD_NOT_EXIST_PATTERN(error_msg).ok THEN
        AddFieldNotExist(res, tool_name, error_msg)
    ELSE IF SESSION_EXISTS_PATTERN(error_msg).ok THEN
        AddSessionExists(res, tool_name, error_msg)
    ELSE IF OLD_SCHEMA_PATTERN(error_msg).ok THEN
        AddOldSchema(res, tool_name, error_msg)
    ELSE IF FILE_NOT_INDEXED_PATTERN(error_msg).ok THEN
        AddFileNotIndexed(res, tool_name, error_msg)
    ELSE IF Contains(error_msg, Sub.exceeds_max) THEN
        AddResponseTooLarge(res, tool_name, error_msg)
    ELSE IF Contains(error_msg, Sub.Session_must) THEN
        AddInvalidSessionName(res, tool_name, error_msg)
    ELSE AddOther(res, tool_name, error_msg)

\* the result is left as it was when _classify_query_error raises
_categorize_error(res, tool_name, error_msg) ==
    IF QUERY_SYNTAX_PATTERN(error_msg).ok THEN
        IF CategorizeRaises(error_msg) THEN res
        ELSE AddSyntaxError(res, tool_name, error_msg)
    ELSE IF FIELD_NOT_EXIST_PATTERN(error_msg).ok THEN
        AddFieldNotExist(res, tool_name, error_msg)
    ELSE IF SESSION_EXISTS_PATTERN(error_msg).ok THEN
        AddSessionExists(res, tool_name, error_msg)
    ELSE IF OLD_SCHEMA_PATTERN(error_msg).ok THEN
        AddOldSchema(res, tool_name, error_msg)
    ELSE IF FILE_NOT_INDEXED_PATTERN(error_msg).ok THEN
        AddFileNotIndexed(res, tool_name, error_msg)
    ELSE IF Contains(error_msg, Sub.Unsupported_query) THEN
        AddUnsupportedQuery(res, tool_name, error_msg)
    ELSE IF Contains(error_msg, Sub.exceeds_max) THEN
        AddResponseTooLarge(res, tool_name, error_msg)
    ELSE IF Contains(error_msg, Sub.Session_must) THEN
        AddInvalidSessionName(res, tool_name, error_msg)
    ELSE AddOther(res, tool_name, error_msg)

\* the tool-failure half of _extract_errors (lines 113-121)
ExtractToolFailure(res, line) ==
    LET tool_match == TOOL_FAIL_PATTERN(line)
    IN  IF tool_match.ok
        THEN _categorize_error(
                 [res EXCEPT !.total_errors = @ + 1,
                             !.by_tool = Inc(@, tool_match.g1)],
                 tool_match.g1, tool_match.g2)
        ELSE res
\* a slip: the not-found record counted under its tool's name
ExtractToolNotFoundByName(res, line) ==
    LET not_found == TOOL_NOT_FOUND_PATTERN(line)
    IN  IF not_found.ok
        THEN [res EXCEPT !.total_errors = @ + 1,
                         !.by_tool = Inc(@, not_found.g1),
                         !.other_errors = Append(@,
                             [type |-> Cat.tool_not_found, tool |-> not_found.g1,
                              message |-> Sub.Server_not_running \o not_found.g1
                                              \o Sub.was_called])]
        ELSE res
\* the tool-not-found half of _extract_errors (lines 124-133)
ExtractToolNotFound(res, line) ==
    LET not_found == TOOL_NOT_FOUND_PATTERN(line)
    IN  IF not_found.ok
        THEN [res EXCEPT !.total_errors = @ + 1,
                         !.by_tool = Inc(@, Cat.tool_not_found),
                         !.other_errors = Append(@,
                             [type |-> Cat.tool_not_found, tool |-> not_found.g1,
                              message |-> Sub.Server_not_running \o not_found.g1
                                              \o Sub.was_called])]
        ELSE res
ExtractRaises(line) ==
    LET tool_match == TOOL_FAIL_PATTERN(line)
    IN  /\ tool_match.ok
        /\ CategorizeRaises(tool_match.g2)
_extract_errors(res, line) ==
    IF ExtractRaises(line) THEN ExtractToolFailure(res, line)
    ELSE ExtractToolNotFound(ExtractToolFailure(res, line), line)

\* a slip: the gate asks for the quoted server name "shebe"
GateQuoted(line) == Contains(Lower(line), <<"\"">> \o Sub.shebe \o <<"\"">>)
\* 'shebe' not in line.lower()
Gate(line) == Contains(Lower(line), Sub.shebe)

\* a slip: the loop left (break) at the first line without 'shebe'
RECURSIVE AnalyzeLinesBreak(_, _)
AnalyzeLinesBreak(res, lines) ==
    IF lines = <<>> THEN res
    ELSE IF ~Gate(Head(lines)) THEN res
    ELSE IF ExtractRaises(Head(lines)) THEN _extract_errors(res, Head(lines))
    ELSE AnalyzeLinesBreak(_extract_errors(res, Head(lines)), Tail(lines))
\* the loop of _analyze_file over content.split('\n'); it ends at a line that raises
RECURSIVE AnalyzeLines(_, _)
AnalyzeLines(res, lines) ==
    IF lines = <<>> THEN res
    ELSE IF ~Gate(Head(lines)) THEN AnalyzeLines(res, Tail(lines))
    ELSE IF ExtractRaises(Head(lines)) THEN _extract_errors(res, Head(lines))
    ELSE AnalyzeLines(_extract_errors(res, Head(lines)), Tail(lines))
FileRaises(content) ==
    \E i \in 1..Len(SplitLines(content)) :
        Gate(SplitLines(content)[i]) /\ ExtractRaises(SplitLines(content)[i])
_analyze_file(res, content) == AnalyzeLines(res, SplitLines(content))

\* one of the three loops of _categorize_errors
RECURSIVE GroupInto(_, _, _)
GroupInto(by_category, prefix, errs) ==
    IF errs = <<>> THEN by_category
    ELSE GroupInto(
             AppendTo(by_category,
                      prefix \o Get(Head(errs), "category", Cat.unknown), Head(errs)),
             prefix, Tail(errs))
\* a slip: the loop over file_errors left out
CategorizeErrorsNoFiles(res) ==
    [res EXCEPT !.by_category =
        GroupInto(GroupInto(@, Cat.query_, res.query_syntax_errors),
                  Cat.session_, res.session_errors)]
_categorize_errors(res) ==
    [res EXCEPT !.by_category =
        GroupInto(GroupInto(GroupInto(@, Cat.query_, res.query_syntax_errors),
                            Cat.session_, res.session_errors),
                  Cat.file_, res.file_errors)]

(***************************************************************************)
(* generate_improvements.  A recommendation keeps its category label, its  *)
(* priority, the count its issue text is formatted with, and its examples; *)
(* the recommendation and implementation texts are constants of the code.  *)
(***************************************************************************)
\* {k: v for k, v in result.by_category.items() if k.startswith(prefix)}
CatsWithPrefix(by_category, prefix) ==
    [k \in {x \in DOMAIN by_category : StartsAt(x, 1, prefix)} |-> by_category[k]]
\* [e.get(key, default) for e in errs]
RECURSIVE Pluck(_, _, _)
Pluck(errs, key, default) ==
    IF errs = <<>> THEN <<>>
    ELSE <<Get(Head(errs), key, default)>> \o Pluck(Tail(errs), key, default)
\* list(set(e.get('session') for e in errs))[:5] : the order in which a set is
\* listed follows the hashes of its members, which change from one process to
\* the next, so every listing of the ids is possible; the lists that can result
SessionExamples(errs) ==
    LET ids == {Get(errs[i], "session", None) : i \in 1..Len(errs)}
        n   == IF Cardinality(ids) < 5 THEN Cardinality(ids) ELSE 5
    IN  {ex \in [1..n -> ids] : \A i, j \in 1..n : ex[i] = ex[j] => i = j}

QueryImprovements(res) ==
    LET query_cats == CatsWithPrefix(res.by_category, Cat.query_)
        urls    == Get(query_cats, Cat.query_ \o Cat.url_pattern, <<>>)
        annots  == Get(query_cats, Cat.query_ \o Cat.annotation, <<>>)
        fields  == Get(query_cats, Cat.query_ \o Cat.field_prefix, <<>>)
        special == Get(query_cats, Cat.query_ \o Cat.special_chars, <<>>)
    IN  IF DOMAIN query_cats = {} THEN <<>>
        ELSE (IF Len(urls) > 0
              THEN <<[category |-> "Query Parsing - URL Patterns", priority |-> "HIGH",
                      issue |-> Len(urls),
                      examples |-> Pluck(Take(urls, 5), "query", None)]>>
              ELSE <<>>)
          \o (IF Len(annots) > 0
              THEN <<[category |-> "Query Parsing - Code Annotations",
                      priority |-> "MEDIUM", issue |-> Len(annots),
                      examples |-> Pluck(Take(annots, 5), "query", None)]>>
              ELSE <<>>)
          \o (IF Len(fields) > 0
              THEN <<[category |-> "Query Parsing - Field Prefixes",
                      priority |-> "MEDIUM", issue |-> Len(fields),
                      examples |-> Pluck(Take(fields, 5), "field", Cat.unknown)]>>
              ELSE <<>>)
          \o (IF Len(special) > 0
              THEN <<[category |-> "Query Parsing - Special Characters",
                      priority |-> "MEDIUM", issue |-> Len(special),
                      examples |-> Pluck(Take(special, 5), "query", None)]>>
              ELSE <<>>)
\* the session recommendations generate_improvements can append (lines 351-391)
SessionImprovements(res) ==
    LET session_cats == CatsWithPrefix(res.by_category, Cat.session_)
        existing == Get(session_cats, Cat.session_ \o Cat.session_exists, <<>>)
        schema   == Get(session_cats, Cat.session_ \o Cat.schema_mismatch, <<>>)
        reindex  == IF Len(existing) > 0
                    THEN {<<[category |-> "Session Management - Auto Re-index",
                             priority |-> "HIGH", issue |-> Len(existing),
                             examples |-> ex]>> : ex \in SessionExamples(existing)}
                    ELSE {<<>>}
        migrate  == IF Len(schema) > 0
                    THEN {<<[category |-> "Session Management - Schema Migration",
                             priority |-> "HIGH", issue |-> Len(schema),
                             examples |-> ex]>> : ex \in SessionExamples(schema)}
                    ELSE {<<>>}
    IN  IF DOMAIN session_cats = {} THEN {<<>>}
        ELSE {r \o m : r \in reindex, m \in migrate}
FileImprovements(res) ==
    LET file_cats == CatsWithPrefix(res.by_category, Cat.file_)
        not_indexed == Get(file_cats, Cat.file_ \o Cat.file_not_indexed, <<>>)
    IN  IF DOMAIN file_cats = {} THEN <<>>
        ELSE IF Len(not_indexed) > 0
        THEN <<[category |-> "File Access - Not Indexed", priority |-> "MEDIUM",
                issue |-> Len(not_indexed)]>>
        ELSE <<>>
\* a slip: the availability recommendation made without looking at the counter
AvailabilityAlways(res) ==
    <<[category |-> "Server Availability", priority |-> "LOW",
       issue |-> Get(res.by_tool, Cat.tool_not_found, 0)]>>
AvailabilityImprovements(res) ==
    IF Get(res.by_tool, Cat.tool_not_found, 0) > 0
    THEN <<[category |-> "Server Availability", priority |-> "LOW",
            issue |-> Get(res.by_tool, Cat.tool_not_found, 0)]>>
    ELSE <<>>
\* a slip: the recommendations sorted with the session family in front
ImprovementsSessionFirst(res) ==
    {s \o QueryImprovements(res) \o FileImprovements(res)
        \o AvailabilityImprovements(res) : s \in SessionImprovements(res)}
\* the lists generate_improvements(result) can return: one for each listing of
\* the session ids
generate_improvements(res) ==
    {QueryImprovements(res) \o s \o FileImprovements(res)
        \o AvailabilityImprovements(res) : s \in SessionImprovements(res)}

\* q[:70] followed by '...' when q is longer (line 466)
Shorten(q) == IF Len(q) > 70 THEN SubSeq(q, 1, 70) \o <<".", ".", ".">> ELSE q
\* a recommendation as print_report shows it (lines 451-458): the examples
\* line is printed only if imp.get('examples') is truthy, a list that is not
\* empty, and then shows at most 3 of them
Shown(imp) ==
    IF Get(imp, "examples", <<>>) # <<>>
    THEN [imp EXCEPT !.examples = Take(@, 3)]
    ELSE [k \in DOMAIN imp \ {"examples"} |-> imp[k]]
\* a line of the sample of print_report (lines 464-466)
SampleLine(err) ==
    [category |-> Get(err, "category", Cat.unknown),
     query |-> Shorten(Get(err, "query", Get(err, "message", Cat.unknown)))]
\* what print_report(result, improvements) prints: the totals, the recommendations
\* and the sample of at most 15 query syntax errors
ErrorReport(res, imps) ==
    [kind |-> "report",
     total_errors |-> res.total_errors,
     by_tool |-> res.by_tool,
     by_category |-> [k \in DOMAIN res.by_category |-> Len(res.by_category[k])],
     improvements |-> [i \in 1..Len(imps) |-> Shown(imps[i])],
     sample |-> [i \in 1..Len(Take(res.query_syntax_errors, 15)) |->
                    SampleLine(res.query_syntax_errors[i])]]
\* what export_json writes
ErrorJson(res, imps) ==
    [kind |-> "json",
     summary |-> [total_errors |-> res.total_errors, by_tool |-> res.by_tool,
                  by_category |->
                      [k \in DOMAIN res.by_category |-> Len(res.by_category[k])]],
     query_syntax_errors |-> res.query_syntax_errors,
     session_errors |-> res.session_errors,
     file_errors |-> res.file_errors,
     improvements |-> imps]

(***************************************************************************)
(* analyze-serena-context.py : ContextAnalyzer                             *)
(***************************************************************************)
\* r'MCP server "(\w+)": Calling MCP tool: (\w+)' tried at position i
ToolCallAt(s, i) ==
    LET p == i + Len(Ctx.MCP_server_q)
        j == RunEnd(s, p, WordChars)
        d == j + Len(Ctx.q_Calling)
        e == RunEnd(s, d, WordChars)
    IN  IF /\ StartsAt(s, i, Ctx.MCP_server_q)
           /\ j > p
           /\ StartsAt(s, j, Ctx.q_Calling)
           /\ e > d
        THEN [ok |-> TRUE, g1 |-> Slice(s, p, j), g2 |-> Slice(s, d, e)]
        ELSE NoMatch
TOOL_CALL_PATTERN(s) ==
    LET hits == {i \in Candidates(s, Ctx.MCP_server_q) : ToolCallAt(s, i).ok}
    IN  IF hits = {} THEN NoMatch ELSE ToolCallAt(s, Min(hits))

BuiltinTools == {Ctx.Read, Ctx.Write, Ctx.Edit, Ctx.Glob, Ctx.Grep, Ctx.Bash, Ctx.Task}
\* r'executePreToolHooks called for tool: (Read|Write|Edit|Glob|Grep|Bash|Task)'
BUILTIN_TOOL_PATTERN(s) ==
    \E i \in 1..Len(s) :
        /\ StartsAt(s, i, Ctx.executePreToolHooks)
        /\ \E t \in BuiltinTools : StartsAt(s, i + Len(Ctx.executePreToolHooks), t)

\* the builtin-call count a session without serena or shebe calls must exceed (line 89)
BuiltinThreshold == 5
\* bytes per estimated token (line 107)
BytesPerToken == 4

\* SessionStats(session_id=..., file_size_bytes=..., estimated_tokens=file_size // 4)
SessionStats(session_id, file_size) ==
    [session_id |-> session_id, file_size_bytes |-> file_size,
     tool_calls |-> <<>>, serena_calls |-> 0, shebe_calls |-> 0,
     other_mcp_calls |-> 0, builtin_calls |-> 0,
     has_serena |-> FALSE, has_shebe |-> FALSE,
     estimated_tokens |-> file_size \div BytesPerToken]

\* the MCP half of one iteration of the loop of _analyze_session (lines 113-131)
CountMcpCall(stats, line) ==
    LET mcp_match == TOOL_CALL_PATTERN(line)
    IN  IF ~mcp_match.ok THEN stats
        ELSE IF mcp_match.g1 = Ctx.serena THEN
            [stats EXCEPT !.serena_calls = @ + 1, !.has_serena = TRUE,
                          !.tool_calls = Append(@,
                              [tool_name |-> Ctx.serena__ \o mcp_match.g2])]
        ELSE IF mcp_match.g1 = Ctx.shebe THEN
            [stats EXCEPT !.shebe_calls = @ + 1, !.has_shebe = TRUE,
                          !.tool_calls = Append(@,
                              [tool_name |-> Ctx.shebe__ \o mcp_match.g2])]
        ELSE [stats EXCEPT !.other_mcp_calls = @ + 1]
\* the builtin half (lines 134-136)
CountBuiltin(stats, line) ==
    IF BUILTIN_TOOL_PATTERN(line)
    THEN [stats EXCEPT !.builtin_calls = @ + 1]
    ELSE stats
SessionLine(stats, line) == CountBuiltin(CountMcpCall(stats, line), line)
\* for line in content.split('\n'): ... (lines 111-136), on the lines left
RECURSIVE CountLines(_, _)
CountLines(stats, lines) ==
    IF lines = <<>> THEN stats
    ELSE CountLines(SessionLine(stats, Head(lines)), Tail(lines))

\* return stats if stats.tool_calls or stats.builtin_calls > 0 else None
NoStats == [session_id |-> None]
SessionResult(stats) ==
    IF stats.tool_calls # <<>> \/ stats.builtin_calls > 0 THEN stats ELSE NoStats
\* _analyze_session on a document whose text and size were read (lines 102-138)
_analyze_session(session_id, content, file_size) ==
    SessionResult(CountLines(SessionStats(session_id, file_size),
                             SplitLines(content)))
\* the retention test with the threshold itself counted as exceeding it
RetainedAtThreshold(stats) ==
    /\ stats # NoStats
    /\ (stats.serena_calls > 0 \/ stats.shebe_calls > 0
        \/ stats.builtin_calls >= BuiltinThreshold)
\* the test of analyze() that keeps a session (lines 88-90)
Retained(stats) ==
    /\ stats # NoStats
    /\ \/ stats.serena_calls > 0
       \/ stats.shebe_calls > 0
       \/ stats.builtin_calls > BuiltinThreshold

\* sum(s.<field> for s in xs)
RECURSIVE SumField(_, _)
SumField(xs, field) ==
    IF xs = <<>> THEN 0 ELSE Head(xs)[field] + SumField(Tail(xs), field)
\* sum(len(s.tool_calls) for s in xs)
RECURSIVE SumToolCalls(_)
SumToolCalls(xs) ==
    IF xs = <<>> THEN 0 ELSE Len(Head(xs).tool_calls) + SumToolCalls(Tail(xs))

\* a Python float that is the quotient of two integers, kept exact
Frac(n, d) == [num |-> n, den |-> d]
IsSerenaOnly(s) == s.has_serena /\ ~s.has_shebe
IsShebeOnly(s) == s.has_shebe /\ ~s.has_serena
IsBoth(s) == s.has_serena /\ s.has_shebe
\* a slip: a session missing either provider counted as having neither
IsNeitherLoose(s) == ~s.has_serena \/ ~s.has_shebe
IsNeither(s) == ~s.has_serena /\ ~s.has_shebe

_aggregate_stats(group) ==
    IF group = <<>>
    THEN [count |-> 0, total_file_size_mb |-> 0, avg_file_size_kb |-> 0,
          total_tool_calls |-> 0, avg_tool_calls |-> 0]
    ELSE [count |-> Len(group),
          total_file_size_mb |-> Frac(SumField(group, "file_size_bytes"), 1024 * 1024),
          avg_file_size_kb |->
              Frac(SumField(group, "file_size_bytes"), Len(group) * 1024),
          total_tool_calls |-> SumToolCalls(group),
          avg_tool_calls |-> Frac(SumToolCalls(group), Len(group)),
          estimated_total_tokens |-> SumField(group, "estimated_tokens"),
          estimated_avg_tokens |->
              Frac(SumField(group, "estimated_tokens"), Len(group))]

\* every call of every retained session, with the session that made it
RECURSIVE CallsOf(_)
CallsOf(ss) ==
    IF ss = <<>> THEN <<>>
    ELSE [j \in 1..Len(Head(ss).tool_calls) |->
             [tool_name |-> Head(ss).tool_calls[j].tool_name,
              session_id |-> Head(ss).session_id]]
         \o CallsOf(Tail(ss))
\* tool name -> {total_calls, sessions_used}; the dict is built in decreasing order
\* of total_calls, which a function does not record
_tool_breakdown(ss) ==
    LET calls == CallsOf(ss)
        names == {calls[i].tool_name : i \in 1..Len(calls)}
    IN  [t \in names |->
            [total_calls |->
                 Cardinality({i \in 1..Len(calls) : calls[i].tool_name = t}),
             sessions_used |->
                 Cardinality({calls[i].session_id :
                     i \in {k \in 1..Len(calls) : calls[k].tool_name = t}})]]

\* the number 0 and the int n among the fractions
Zero == Frac(0, 1)
Whole(n) == Frac(n, 1)
\* x / y
Div(x, y) == Frac(x.num * y.den, x.den * y.num)
\* x >= 0: the guard of the ratio with zero let through
NotNegative(x) == x.num >= 0
\* x > 0
Positive(x) == x.num > 0
\* sum(s.<field> for s in group) / len(group) if group else 0
Average(group, field) ==
    IF group # <<>> THEN Frac(SumField(group, field), Len(group)) ELSE Zero

_generate_report(ss) ==
    LET serena_only == SelectSeq(ss, IsSerenaOnly)
        shebe_only  == SelectSeq(ss, IsShebeOnly)
        both        == SelectSeq(ss, IsBoth)
        neither     == SelectSeq(ss, IsNeither)
        serena_avg_size  == Average(serena_only, "file_size_bytes")
        serena_avg_calls == Average(serena_only, "serena_calls")
        shebe_avg_size   == Average(shebe_only, "file_size_bytes")
        shebe_avg_calls  == Average(shebe_only, "shebe_calls")
        neither_avg_size == Average(neither, "file_size_bytes")
    IN  [summary |->
            [total_sessions_analyzed |-> Len(ss),
             sessions_with_serena_only |-> Len(serena_only),
             sessions_with_shebe_only |-> Len(shebe_only),
             sessions_with_both |-> Len(both),
             sessions_with_neither |-> Len(neither)],
         serena_sessions |-> _aggregate_stats(serena_only \o both),
         shebe_sessions |-> _aggregate_stats(shebe_only \o both),
         no_mcp_sessions |-> _aggregate_stats(neither),
         comparison |->
            [avg_log_size_serena_sessions_kb |-> Div(serena_avg_size, Whole(1024)),
             avg_log_size_shebe_sessions_kb |-> Div(shebe_avg_size, Whole(1024)),
             avg_log_size_no_mcp_sessions_kb |-> Div(neither_avg_size, Whole(1024)),
             avg_serena_calls_per_session |-> serena_avg_calls,
             avg_shebe_calls_per_session |-> shebe_avg_calls,
             serena_vs_shebe_size_ratio |->
                 IF Positive(shebe_avg_size)
                 THEN Div(serena_avg_size, shebe_avg_size) ELSE Zero],
         tool_call_breakdown |-> _tool_breakdown(ss)]

\* print_report(report) starts with report['summary']: KeyError on the empty dict
PrintReportRaises(rep) == "summary" \notin DOMAIN rep
\* 'MCP server "shebe": Tool \'search_code\' failed: Syntax Error: /users/{id}/roles'
L_syntax_url ==
    <<"M", "C", "P", " ", "s", "e", "r", "v", "e", "r", " ", "\"", "s", "h", "e", "b", "e",
      "\"", ":", " ", "T", "o", "o", "l", " ", "'", "s", "e", "a", "r", "c", "h", "_", "c",
      "o", "d", "e", "'", " ", "f", "a", "i", "l", "e", "d", ":", " ", "S", "y", "n", "t", "a",
      "x", " ", "E", "r", "r", "o", "r", ":", " ", "/", "u", "s", "e", "r", "s", "/", "{", "i",
      "d", "}", "/", "r", "o", "l", "e", "s">>
\* 'MCP server "shebe": Tool \'index_repository\' failed: Session \'my-session\' already exists'
L_session_exists ==
    <<"M", "C", "P", " ", "s", "e", "r", "v", "e", "r", " ", "\"", "s", "h", "e", "b", "e",
      "\"", ":", " ", "T", "o", "o", "l", " ", "'", "i", "n", "d", "e", "x", "_", "r", "e",
      "p", "o", "s", "i", "t", "o", "r", "y", "'", " ", "f", "a", "i", "l", "e", "d", ":", " ",
      "S", "e", "s", "s", "i", "o", "n", " ", "'", "m", "y", "-", "s", "e", "s", "s", "i", "o",
      "n", "'", " ", "a", "l", "r", "e", "a", "d", "y", " ", "e", "x", "i", "s", "t", "s">>
\* 'MCP server "shebe": Tool \'read_file\' failed: File \'a.rs\' not indexed in session \'s1\''
L_not_indexed ==
    <<"M", "C", "P", " ", "s", "e", "r", "v", "e", "r", " ", "\"", "s", "h", "e", "b", "e",
      "\"", ":", " ", "T", "o", "o", "l", " ", "'", "r", "e", "a", "d", "_", "f", "i", "l",
      "e", "'", " ", "f", "a", "i", "l", "e", "d", ":", " ", "F", "i", "l", "e", " ", "'", "a",
      ".", "r", "s", "'", " ", "n", "o", "t", " ", "i", "n", "d", "e", "x", "e", "d", " ", "i",
      "n", " ", "s", "e", "s", "s", "i", "o", "n", " ", "'", "s", "1", "'">>
\* 'Tool mcp__shebe__read_file not found'
L_tool_not_found ==
    <<"T", "o", "o", "l", " ", "m", "c", "p", "_", "_", "s", "h", "e", "b", "e", "_", "_", "r",
      "e", "a", "d", "_", "f", "i", "l", "e", " ", "n", "o", "t", " ", "f", "o", "u", "n", "d">>
\* "SHEBE Tool 'read_file' failed: Tool mcp__shebe__read_file not found"
L_failed_and_not_found ==
    <<"S", "H", "E", "B", "E", " ", "T", "o", "o", "l", " ", "'", "r", "e", "a", "d", "_", "f",
      "i", "l", "e", "'", " ", "f", "a", "i", "l", "e", "d", ":", " ", "T", "o", "o", "l", " ",
      "m", "c", "p", "_", "_", "s", "h", "e", "b", "e", "_", "_", "r", "e", "a", "d", "_", "f",
      "i", "l", "e", " ", "n", "o", "t", " ", "f", "o", "u", "n", "d">>
\* "Tool 'search_code' failed with error: Syntax Error: /users/{id}/roles"
L_no_shebe ==
    <<"T", "o", "o", "l", " ", "'", "s", "e", "a", "r", "c", "h", "_", "c", "o", "d", "e", "'",
      " ", "f", "a", "i", "l", "e", "d", " ", "w", "i", "t", "h", " ", "e", "r", "r", "o", "r",
      ":", " ", "S", "y", "n", "t", "a", "x", " ", "E", "r", "r", "o", "r", ":", " ", "/", "u",
      "s", "e", "r", "s", "/", "{", "i", "d", "}", "/", "r", "o", "l", "e", "s">>
\* 'MCP server "shebe": connected'
L_noise ==
    <<"M", "C", "P", " ", "s", "e", "r", "v", "e", "r", " ", "\"", "s", "h", "e", "b", "e",
      "\"", ":", " ", "c", "o", "n", "n", "e", "c", "t", "e", "d">>
\* 'MCP server "shebe": Tool \'search_code\' failed: Syntax Error: @Router /users'
L_annotation ==
    <<"M", "C", "P", " ", "s", "e", "r", "v", "e", "r", " ", "\"", "s", "h", "e", "b", "e",
      "\"", ":", " ", "T", "o", "o", "l", " ", "'", "s", "e", "a", "r", "c", "h", "_", "c",
      "o", "d", "e", "'", " ", "f", "a", "i", "l", "e", "d", ":", " ", "S", "y", "n", "t", "a",
      "x", " ", "E", "r", "r", "o", "r", ":", " ", "@", "R", "o", "u", "t", "e", "r", " ", "/",
      "u", "s", "e", "r", "s">>
\* 'MCP server "shebe": Tool \'index_repository\' failed: Session \'s2\' already exists'
L_session_other ==
    <<"M", "C", "P", " ", "s", "e", "r", "v", "e", "r", " ", "\"", "s", "h", "e", "b", "e",
      "\"", ":", " ", "T", "o", "o", "l", " ", "'", "i", "n", "d", "e", "x", "_", "r", "e",
      "p", "o", "s", "i", "t", "o", "r", "y", "'", " ", "f", "a", "i", "l", "e", "d", ":", " ",
      "S", "e", "s", "s", "i", "o", "n", " ", "'", "s", "2", "'", " ", "a", "l", "r", "e", "a",
      "d", "y", " ", "e", "x", "i", "s", "t", "s">>
\* 'MCP server "serena": Calling MCP tool: find_symbol'
X_serena_call ==
    <<"M", "C", "P", " ", "s", "e", "r", "v", "e", "r", " ", "\"", "s", "e", "r", "e", "n",
      "a", "\"", ":", " ", "C", "a", "l", "l", "i", "n", "g", " ", "M", "C", "P", " ", "t",
      "o", "o", "l", ":", " ", "f", "i", "n", "d", "_", "s", "y", "m", "b", "o", "l">>
\* 'MCP server "shebe": Calling MCP tool: search_code'
X_shebe_call ==
    <<"M", "C", "P", " ", "s", "e", "r", "v", "e", "r", " ", "\"", "s", "h", "e", "b", "e",
      "\"", ":", " ", "C", "a", "l", "l", "i", "n", "g", " ", "M", "C", "P", " ", "t", "o",
      "o", "l", ":", " ", "s", "e", "a", "r", "c", "h", "_", "c", "o", "d", "e">>
\* 'MCP server "github": Calling MCP tool: get_issue'
X_other_call ==
    <<"M", "C", "P", " ", "s", "e", "r", "v", "e", "r", " ", "\"", "g", "i", "t", "h", "u",
      "b", "\"", ":", " ", "C", "a", "l", "l", "i", "n", "g", " ", "M", "C", "P", " ", "t",
      "o", "o", "l", ":", " ", "g", "e", "t", "_", "i", "s", "s", "u", "e">>
\* 'executePreToolHooks called for tool: Read'
X_builtin ==
    <<"e", "x", "e", "c", "u", "t", "e", "P", "r", "e", "T", "o", "o", "l", "H", "o", "o", "k",
      "s", " ", "c", "a", "l", "l", "e", "d", " ", "f", "o", "r", " ", "t", "o", "o", "l", ":",
      " ", "R", "e", "a", "d">>
\* "Field does not exist: 'file'"
P_field ==
    <<"F", "i", "e", "l", "d", " ", "d", "o", "e", "s", " ", "n", "o", "t", " ", "e", "x", "i",
      "s", "t", ":", " ", "'", "f", "i", "l", "e", "'">>
\* "Session 'my-session' already exists"
P_exists ==
    <<"S", "e", "s", "s", "i", "o", "n", " ", "'", "m", "y", "-", "s", "e", "s", "s", "i", "o",
      "n", "'", " ", "a", "l", "r", "e", "a", "d", "y", " ", "e", "x", "i", "s", "t", "s">>
\* "Session 's1' uses old schema version 2"
P_schema ==
    <<"S", "e", "s", "s", "i", "o", "n", " ", "'", "s", "1", "'", " ", "u", "s", "e", "s", " ",
      "o", "l", "d", " ", "s", "c", "h", "e", "m", "a", " ", "v", "e", "r", "s", "i", "o", "n",
      " ", "2">>
\* "File 'a.rs' not indexed in session 's1'"
P_file ==
    <<"F", "i", "l", "e", " ", "'", "a", ".", "r", "s", "'", " ", "n", "o", "t", " ", "i", "n",
      "d", "e", "x", "e", "d", " ", "i", "n", " ", "s", "e", "s", "s", "i", "o", "n", " ", "'",
      "s", "1", "'">>
\* '/users/{id}/roles'
P_url ==
    <<"/", "u", "s", "e", "r", "s", "/", "{", "i", "d", "}", "/", "r", "o", "l", "e", "s">>
\* 'timeout'
P_word ==
    <<"t", "i", "m", "e", "o", "u", "t">>
\* '/users/'
Q_users ==
    <<"/", "u", "s", "e", "r", "s", "/">>
\* '{id}'
Q_id ==
    <<"{", "i", "d", "}">>
\* '@Param'
Q_Param ==
    <<"@", "P", "a", "r", "a", "m">>
\* 'file:'
Q_file ==
    <<"f", "i", "l", "e", ":">>
\* 'one two '
Q_two ==
    <<"o", "n", "e", " ", "t", "w", "o", " ">>

(***************************************************************************)
(* Bounds and inputs                                                       *)
(***************************************************************************)
MaxFiles == 2        \* documents in the debug directory
MaxLines == 2        \* lines in all documents of analyze-claude-errors together
MaxCtxLines == 6     \* lines in all documents of analyze-serena-context together
MaxCallLines == 2    \* lines with a serena or shebe call in a document of analyze-serena-context
MaxEmptiedLines == 1 \* lines of a document of analyze-serena-context whose st_size may be 0
MaxGroupings == 2    \* runs of _categorize_errors on one analyzer
MaxMsgParts == 3     \* parts of a failure message given to _categorize_error
MaxQueryParts == 3   \* parts of a query given to _classify_query_error

\* the sequences over S of length lo..hi
SeqsOf(S, lo, hi) == UNION {[1..n -> S] : n \in lo..hi}
\* ''.join(parts)
RECURSIVE Concat(_)
Concat(parts) == IF parts = <<>> THEN <<>> ELSE Head(parts) \o Concat(Tail(parts))

\* the lines of the debug logs of analyze-claude-errors
LogLines ==
    {L_syntax_url, L_session_exists, L_not_indexed, L_tool_not_found,
     L_failed_and_not_found, L_no_shebe, L_noise}
\* the lines of the debug logs of analyze-serena-context with a call of a tool
\* of the two MCP servers compared
CtxLines == {X_serena_call, X_shebe_call}
\* failure messages: every concatenation of at most MaxMsgParts of these
MsgParts ==
    {RE.Syntax_Error, P_field, P_exists, P_schema, P_file, Sub.Unsupported_query,
     Sub.exceeds_max, Sub.Session_must, P_url, <<" ">>, <<Controls[1]>>}
Messages == {Concat(ps) : ps \in SeqsOf(MsgParts, 0, MaxMsgParts)}
\* queries: every concatenation of at most MaxQueryParts of these
QueryParts ==
    {<<" ">>, <<"\t">>, <<Controls[1]>>, Q_users, Q_id, Sub.at_Router, Q_Param, Sub.assign, Q_file,
     <<"[">>, P_word, Q_two}
Queries == {Concat(ps) : ps \in SeqsOf(QueryParts, 0, MaxQueryParts)}
\* the AnalysisResult a method is applied to: a fresh one, or one with a record in
\* each list
UsedResult ==
    _analyze_file(AnalysisResult,
        JoinLines(<<L_syntax_url, L_session_exists, L_not_indexed,
                    L_failed_and_not_found>>))
PriorResults == {AnalysisResult, UsedResult}

(***************************************************************************)
(* The runs of the two scripts                                             *)
(***************************************************************************)
EmptyDict == <<>>
InitCommon ==
    /\ nfiles = 0 /\ nlines = 0 /\ corpus = <<>>
    /\ groupings = 0
    /\ cur = NoStats /\ sessions = <<>> /\ report = EmptyDict
    /\ exc = "none"
    /\ ret = <<>>
\* main() of either script has printed its first line (analyze-claude-errors.py
\* line 495, analyze-serena-context.py line 333) and constructed the analyzer
Init ==
    /\ prog \in {"errors", "context"}
    /\ pc = "main"
    /\ exists \in BOOLEAN
    /\ result = AnalysisResult
    /\ arg = <<>>
    /\ out = <<"Analyzing Claude Code debug logs in">>
    /\ InitCommon

\* ---- analyze-claude-errors.py : main() ----
\* analyze(), lines 82-84: the directory is missing
ErrAnalyzeMissing ==
    /\ prog = "errors" /\ pc = "main" /\ ~exists
    /\ out' = Append(out, "Debug directory not found")
    /\ pc' = "analyzed"
    /\ UNCHANGED <<prog, exists, nfiles, nlines, corpus, result, groupings, cur,
                   sessions, report, exc, arg, ret>>
\* analyze(), lines 86-87: the directory is listed
ErrAnalyzeStart ==
    /\ prog = "errors" /\ pc = "main" /\ exists
    /\ out' = Append(out, "Analyzing debug log files")
    /\ pc' = "files"
    /\ UNCHANGED <<prog, exists, nfiles, nlines, corpus, result, groupings, cur,
                   sessions, report, exc, arg, ret>>
\* _analyze_file on the next document, whose content is lines joined by '\n'
ErrAnalyzeFile ==
    /\ prog = "errors" /\ pc = "files"
    /\ nfiles < MaxFiles
    /\ \E lines \in SeqsOf(LogLines, 1, MaxLines - nlines) :
         LET content == JoinLines(lines)
         IN  /\ nfiles' = nfiles + 1
             /\ nlines' = nlines + Len(SplitLines(content))
             /\ corpus' = corpus \o SplitLines(content)
             /\ result' = _analyze_file(result, content)
             /\ IF FileRaises(content)
                THEN exc' = "IndexError" /\ pc' = "crashed"
                ELSE UNCHANGED <<exc, pc>>
    /\ UNCHANGED <<prog, exists, groupings, cur, sessions, report, out, arg, ret>>
\* _analyze_file, lines 99-101: the document cannot be read and is skipped
ErrUnreadableFile ==
    /\ prog = "errors" /\ pc = "files"
    /\ nfiles < MaxFiles
    /\ nfiles' = nfiles + 1
    /\ out' = Append(out, "Error reading")
    /\ UNCHANGED <<prog, pc, exists, nlines, corpus, result, groupings, cur, sessions,
                   report, exc, arg, ret>>
\* analyze(), lines 92-93: after the last document
ErrAnalyzeEnd ==
    /\ prog = "errors" /\ pc = "files"
    /\ result' = _categorize_errors(result)
    /\ groupings' = groupings + 1
    /\ pc' = "analyzed"
    /\ UNCHANGED <<prog, exists, nfiles, nlines, corpus, cur, sessions, report, exc,
                   out, arg, ret>>
\* the grouping step run again on the same analyzer
ErrCategorizeAgain ==
    /\ prog = "errors" /\ pc = "analyzed"
    /\ groupings >= 1
    /\ groupings < MaxGroupings
    /\ result' = _categorize_errors(result)
    /\ groupings' = groupings + 1
    /\ UNCHANGED <<prog, pc, exists, nfiles, nlines, corpus, cur, sessions, report,
                   exc, out, arg, ret>>
\* main(), lines 499-508: generate_improvements, print_report, export_json
ErrMainReport ==
    /\ prog = "errors" /\ pc = "analyzed"
    /\ \E improvements \in generate_improvements(result) :
         out' = out \o <<ErrorReport(result, improvements),
                          ErrorJson(result, improvements)>>
    /\ pc' = "exit"
    /\ UNCHANGED <<prog, exists, nfiles, nlines, corpus, result, groupings, cur,
                   sessions, report, exc, arg, ret>>

\* ---- analyze-serena-context.py : main() ----
\* analyze(), lines 79-81: the directory is missing, analyze() returns {}
CtxAnalyzeMissing ==
    /\ prog = "context" /\ pc = "main" /\ ~exists
    /\ out' = Append(out, "Debug directory not found")
    /\ report' = EmptyDict
    /\ pc' = "analyzed"
    /\ UNCHANGED <<prog, exists, nfiles, nlines, corpus, result, groupings, cur,
                   sessions, exc, arg, ret>>
\* analyze(), lines 83-84
CtxAnalyzeStart ==
    /\ prog = "context" /\ pc = "main" /\ exists
    /\ out' = Append(out, "Analyzing debug log files")
    /\ pc' = "files"
    /\ UNCHANGED <<prog, exists, nfiles, nlines, corpus, result, groupings, cur,
                   sessions, report, exc, arg, ret>>
\* one iteration of the loop of analyze(), lines 86-90, on a document that can
\* be read.  _analyze_session reads the text (line 97) and then asks the file
\* system for the size (line 98); the size is stored once, before the loop
\* (lines 102-108), and the loop never writes it.  The text is the lines drawn
\* joined by '\n': at most MaxCallLines lines with a serena or shebe call, or
\* one line with a call of another MCP server, then a run of lines with a
\* built-in call.  The size is the bytes of the text; for a text
\* of at most MaxEmptiedLines lines it may also be 0: the two calls are
\* separate, and a log emptied between them, a pipe or a pseudo-file has
\* st_size 0 whatever was read
CtxAnalyzeSession ==
    /\ prog = "context" /\ pc = "files"
    /\ nfiles < MaxFiles
    /\ \E head \in SeqsOf(CtxLines, 0, MaxCallLines) \cup {<<X_other_call>>},
          n \in 0..MaxCtxLines :
         /\ Len(head) + n <= MaxCtxLines - nlines
         /\ \E content \in {JoinLines(head \o [i \in 1..n |-> X_builtin])} :
            \E file_size \in {Len(content)}
                    \cup (IF Len(head) + n <= MaxEmptiedLines THEN {0} ELSE {}) :
            \E stats \in {_analyze_session(nfiles + 1, content, file_size)} :
                /\ nfiles' = nfiles + 1
                /\ nlines' = nlines + Len(head) + n
                /\ cur' = stats
                /\ sessions' = IF Retained(stats)
                               THEN Append(sessions, stats) ELSE sessions
    /\ UNCHANGED <<prog, pc, exists, corpus, result, groupings, report, exc, out,
                   arg, ret>>
\* one iteration of the loop of analyze() on a document that cannot be read:
\* _analyze_session returns None (lines 99-100), which analyze() holds in stats
\* (line 87) and does not append (line 88)
CtxUnreadableFile ==
    /\ prog = "context" /\ pc = "files"
    /\ nfiles < MaxFiles
    /\ nfiles' = nfiles + 1
    /\ cur' = NoStats
    /\ UNCHANGED <<prog, pc, exists, nlines, corpus, result, groupings, sessions,
                   report, exc, out, arg, ret>>
\* analyze(), line 92
CtxAnalyzeEnd ==
    /\ prog = "context" /\ pc = "files"
    /\ report' = _generate_report(sessions)
    /\ pc' = "analyzed"
    /\ UNCHANGED <<prog, exists, nfiles, nlines, corpus, result, groupings, cur,
                   sessions, exc, out, arg, ret>>
\* main(), lines 338-347: print_report and the JSON export.  print_report
\* prints its banner (lines 241-243) before it reads report['summary']
CtxMainReport ==
    /\ prog = "context" /\ pc = "analyzed"
    /\ IF PrintReportRaises(report)
       THEN /\ exc' = "KeyError"
            /\ pc' = "crashed"
            /\ out' = Append(out, "report banner")
       ELSE /\ out' = out \o <<[kind |-> "report", report |-> report],
                               [kind |-> "json", report |-> report]>>
            /\ pc' = "exit"
            /\ UNCHANGED exc
    /\ UNCHANGED <<prog, exists, nfiles, nlines, corpus, result, groupings, cur,
                   sessions, report, arg, ret>>

Next ==
    \/ ErrAnalyzeMissing \/ ErrAnalyzeStart \/ ErrAnalyzeFile \/ ErrUnreadableFile
    \/ ErrAnalyzeEnd \/ ErrCategorizeAgain \/ ErrMainReport
    \/ CtxAnalyzeMissing \/ CtxAnalyzeStart \/ CtxAnalyzeSession \/ CtxUnreadableFile
    \/ CtxAnalyzeEnd \/ CtxMainReport
Spec == Init /\ [][Next]_vars

(***************************************************************************)
(* _categorize_error applied to one failure message                        *)
(***************************************************************************)
InitCategorize ==
    /\ prog = "_categorize_error"
    /\ pc = "call"
    /\ exists = TRUE
    /\ result \in PriorResults
    /\ arg \in Messages
    /\ out = <<>>
    /\ InitCommon
CallCategorize ==
    /\ prog = "_categorize_error" /\ pc = "call"
    /\ ret' = _categorize_error(result, S_search_code, arg)
    /\ IF CategorizeRaises(arg)
       THEN exc' = "IndexError" /\ pc' = "raised"
       ELSE exc' = exc /\ pc' = "returned"
    /\ UNCHANGED <<prog, exists, nfiles, nlines, corpus, result, groupings, cur,
                   sessions, report, out, arg>>
SpecCategorize == InitCategorize /\ [][CallCategorize]_vars

(***************************************************************************)
(* _classify_query_error applied to one query                              *)
(***************************************************************************)
InitQuery ==
    /\ prog = "_classify_query_error"
    /\ pc = "call"
    /\ exists = TRUE
    /\ result = AnalysisResult
    /\ arg \in Queries
    /\ out = <<>>
    /\ InitCommon
CallClassify ==
    /\ prog = "_classify_query_error" /\ pc = "call"
    /\ IF _classify_query_error(arg) = Raised
       THEN exc' = "IndexError" /\ pc' = "raised" /\ UNCHANGED ret
       ELSE ret' = _classify_query_error(arg) /\ pc' = "returned" /\ UNCHANGED exc
    /\ UNCHANGED <<prog, exists, nfiles, nlines, corpus, result, groupings, cur,
                   sessions, report, out, arg>>
SpecQuery == InitQuery /\ [][CallClassify]_vars

(***************************************************************************)
(* generate_improvements applied to the result of analyze()                *)
(***************************************************************************)
MaxCopies == 2
\* the lines whose records generate_improvements turns into recommendations
ImproveLines ==
    <<L_syntax_url, L_annotation, L_session_exists, L_not_indexed, L_tool_not_found,
      L_session_other>>
RECURSIVE Repeated(_, _)
\* a log in which line k of ImproveLines occurs n[k] times
Repeated(n, k) ==
    IF k > Len(ImproveLines) THEN <<>>
    ELSE [i \in 1..n[k] |-> ImproveLines[k]] \o Repeated(n, k + 1)
\* analyze() on a directory whose one document holds these lines
AnalyzedResult(lines) ==
    IF lines = <<>> THEN _categorize_errors(AnalysisResult)
    ELSE _categorize_errors(_analyze_file(AnalysisResult, JoinLines(lines)))
InitImprove ==
    /\ prog = "generate_improvements"
    /\ pc = "call"
    /\ exists = TRUE
    /\ arg \in [1..Len(ImproveLines) -> 0..MaxCopies]
    /\ result = AnalyzedResult(Repeated(arg, 1))
    /\ out = <<>>
    /\ InitCommon
CallImprove ==
    /\ prog = "generate_improvements" /\ pc = "call"
    /\ ret' \in generate_improvements(result)
    /\ pc' = "returned"
    /\ UNCHANGED <<prog, exists, nfiles, nlines, corpus, result, groupings, cur,
                   sessions, report, exc, out, arg>>
SpecImprove == InitImprove /\ [][CallImprove]_vars

(***************************************************************************)
(* analyze() on two orderings of the same documents                        *)
(***************************************************************************)
\* the permutations of 1..n
Perms(n) == {f \in [1..n -> 1..n] : \A i, j \in 1..n : f[i] = f[j] => i = j}
\* a debug directory: its lines in reading order, and for each line the
\* number of the document that holds it (documents are numbered 1, 2, ... in
\* the order glob lists them)
Directories ==
    {[lines |-> ls, doc |-> d] :
        ls \in SeqsOf(LogLines, 1, MaxLines), d \in SeqsOf(1..MaxFiles, 1, MaxLines)}
WellFormed(dir) ==
    /\ Len(dir.doc) = Len(dir.lines)
    /\ dir.doc[1] = 1
    /\ \A i \in 2..Len(dir.doc) : dir.doc[i] \in {dir.doc[i - 1], dir.doc[i - 1] + 1}
NumDocs(dir) == dir.doc[Len(dir.doc)]
\* the lines of document k
DocOf(dir, k) ==
    LET idx == {i \in 1..Len(dir.lines) : dir.doc[i] = k}
    IN  [j \in 1..Cardinality(idx) |-> dir.lines[Min(idx) + j - 1]]
\* the same documents listed in another order, each with its lines in another
\* order: the lines taken in the order p, p keeping the lines of a document
\* together
KeepsDocuments(dir, p) ==
    Cardinality({i \in 2..Len(dir.doc) : dir.doc[p[i]] # dir.doc[p[i - 1]]})
        = NumDocs(dir) - 1
Reordered(dir, p) ==
    [lines |-> [i \in 1..Len(dir.lines) |-> dir.lines[p[i]]],
     doc |-> [i \in 1..Len(dir.doc) |->
                 1 + Cardinality({j \in 2..i : dir.doc[p[j]] # dir.doc[p[j - 1]]})]]
\* the loop of analyze() over the documents, from document k on (lines 89-90)
RECURSIVE AnalyzeDocs(_, _, _)
AnalyzeDocs(res, dir, k) ==
    IF k > NumDocs(dir) THEN res
    ELSE AnalyzeDocs(_analyze_file(res, JoinLines(DocOf(dir, k))), dir, k + 1)
\* analyze() on an existing directory (lines 86-93)
analyze(dir) == _categorize_errors(AnalyzeDocs(AnalysisResult, dir, 1))

InitOrder ==
    /\ prog = "analyze"
    /\ pc = "call"
    /\ exists = TRUE
    /\ result = AnalysisResult
    /\ \E dir \in Directories :
         /\ WellFormed(dir)
         /\ \E p \in Perms(Len(dir.lines)) :
              /\ KeepsDocuments(dir, p)
              /\ arg = <<dir, Reordered(dir, p)>>
    /\ out = <<>>
    /\ InitCommon
\* a fresh analyzer runs analyze() on each of the two directories
CallAnalyze ==
    /\ prog = "analyze" /\ pc = "call"
    /\ result' = analyze(arg[1])
    /\ ret' = analyze(arg[2])
    /\ pc' = "returned"
    /\ UNCHANGED <<prog, exists, nfiles, nlines, corpus, groupings, cur, sessions,
                   report, exc, out, arg>>
SpecOrder == InitOrder /\ [][CallAnalyze]_vars

(***************************************************************************)
(* Properties                                                              *)
(***************************************************************************)
ListFields == {"query_syntax_errors", "session_errors", "file_errors", "other_errors"}
\* after is before with exactly one record appended
Appended(before, after) ==
    /\ Len(after) = Len(before) + 1
    /\ SubSeq(after, 1, Len(before)) = before
Last(s) == s[Len(s)]
Called == prog = "_categorize_error" /\ pc # "call"
NoSyntaxNorField(m) ==
    /\ ~QUERY_SYNTAX_PATTERN(m).ok
    /\ ~FIELD_NOT_EXIST_PATTERN(m).ok
RecordedAsSessionExists ==
    /\ pc = "returned"
    /\ Appended(result.session_errors, ret.session_errors)
    /\ Last(ret.session_errors).category = Cat.session_exists
    /\ Last(ret.session_errors).session = SESSION_EXISTS_PATTERN(arg).g1
\* 'my-session'
S_my_session ==
    <<"m", "y", "-", "s", "e", "s", "s", "i", "o", "n">>

\* C2 as stated: every message of the duplicate-session shape, whatever else it
\* contains, is recorded as a session error with category session_exists and
\* the captured session id.
C2_AnyDuplicateSessionMessage ==
    (Called /\ SESSION_EXISTS_PATTERN(arg).ok) => RecordedAsSessionExists
\* C2 amended: a message of the duplicate-session shape that matches neither the
\* syntax-error shape nor the unknown-field shape is recorded as a session
\* error with category session_exists and the captured session id, whatever
\* later rule it would also satisfy.
C2_DuplicateSessionAfterQueryRules ==
    (Called /\ SESSION_EXISTS_PATTERN(arg).ok /\ NoSyntaxNorField(arg))
        => RecordedAsSessionExists
C2_Witness ==
    /\ Called /\ pc = "returned"
    /\ result = UsedResult
    /\ SESSION_EXISTS_PATTERN(arg).ok /\ NoSyntaxNorField(arg)
    /\ Contains(arg, Sub.Unsupported_query)
    /\ Last(ret.session_errors).category = Cat.session_exists
    /\ Last(ret.session_errors).session = S_my_session

QuerySubcategories ==
    {Cat.url_pattern, Cat.annotation, Cat.assignment, Cat.field_prefix, Cat.special_chars,
     Cat.complex_phrase, Cat.other}
\* C3: _classify_query_error returns exactly one subcategory and never raises,
\* for every query, the empty query and the queries made only of whitespace
\* included.
C3_ClassifierTotal ==
    (prog = "_classify_query_error" /\ pc # "call")
        => (pc = "returned" /\ exc = "none" /\ ret \in QuerySubcategories)

\* C5: every call of _categorize_error returns and appends exactly one record to
\* exactly one of query_syntax_errors, session_errors, file_errors and
\* other_errors, leaving the other three lists as they were.
C5_OneRecordOneList ==
    Called =>
        /\ pc = "returned" /\ exc = "none"
        /\ Cardinality({f \in ListFields : Appended(result[f], ret[f])}) = 1
        /\ \A f \in ListFields : Appended(result[f], ret[f]) \/ ret[f] = result[f]
C5_Witness ==
    /\ Called /\ pc = "returned"
    /\ result = UsedResult
    /\ QUERY_SYNTAX_PATTERN(arg).ok
    /\ Strip(QUERY_SYNTAX_PATTERN(arg).g1) # QUERY_SYNTAX_PATTERN(arg).g1
    /\ Appended(result.query_syntax_errors, ret.query_syntax_errors)
    /\ ret.other_errors = result.other_errors

FieldAndUnsupported(m) ==
    /\ FIELD_NOT_EXIST_PATTERN(m).ok
    /\ Contains(m, Sub.Unsupported_query)
\* C6 as stated: a message of the unknown-field shape that also contains
\* 'Unsupported query' is classified as field_prefix and never as
\* unsupported_query.
C6_FieldBeforeUnsupported ==
    (Called /\ FieldAndUnsupported(arg)) =>
        /\ pc = "returned"
        /\ Appended(result.query_syntax_errors, ret.query_syntax_errors)
        /\ Last(ret.query_syntax_errors).category = Cat.field_prefix
\* C6 amended: such a message is never classified as unsupported_query, and it
\* is classified as field_prefix with the captured field unless it also matches
\* the syntax-error shape, whose rule comes first.
C6_FieldBeforeUnsupportedAfterSyntax ==
    (Called /\ FieldAndUnsupported(arg)) =>
        /\ pc = "returned"
        /\ Appended(result.query_syntax_errors, ret.query_syntax_errors)
        /\ Last(ret.query_syntax_errors).category # Cat.unsupported_query
        /\ ~QUERY_SYNTAX_PATTERN(arg).ok =>
             /\ Last(ret.query_syntax_errors).category = Cat.field_prefix
             /\ Last(ret.query_syntax_errors).field = FIELD_NOT_EXIST_PATTERN(arg).g1
C6_Witness ==
    /\ Called /\ pc = "returned"
    /\ FieldAndUnsupported(arg) /\ ~QUERY_SYNTAX_PATTERN(arg).ok
    /\ Find(arg, Sub.Unsupported_query, 1) < Find(arg, RE.Field_not_exist, 1)
    /\ Last(ret.query_syntax_errors).category = Cat.field_prefix

Finished == pc \in {"exit", "crashed"}
\* C4: with the log directory missing, each of the two scripts emits the
\* message, reports on nothing and completes main() with no exception.
C4_MissingDirectoryCompletes ==
    (prog \in {"errors", "context"} /\ ~exists /\ Finished) =>
        /\ pc = "exit" /\ exc = "none"
        /\ out[2] = "Debug directory not found"
        /\ Len(out) = 4

RECURSIVE BucketTotal(_)
\* the sum of the sizes of the buckets of a by_category
BucketTotal(by_category) ==
    IF DOMAIN by_category = {} THEN 0
    ELSE LET k == CHOOSE k \in DOMAIN by_category : TRUE
         IN  Len(by_category[k])
               + BucketTotal([j \in DOMAIN by_category \ {k} |-> by_category[j]])
IsNotFound(r) == "type" \in DOMAIN r
IsFailure(r) == ~IsNotFound(r)
NumRecords(res) ==
    Len(res.query_syntax_errors) + Len(res.session_errors)
        + Len(res.file_errors) + Len(res.other_errors)
NotFoundRecords(res) == SelectSeq(res.other_errors, IsNotFound)
CatchAllRecords(res) == SelectSeq(res.other_errors, IsFailure)
InSomeBucket(res, r) ==
    \E k \in DOMAIN res.by_category :
        \E i \in 1..Len(res.by_category[k]) : res.by_category[k][i] = r
NoNotFoundInBuckets(res) ==
    \A i \in 1..Len(res.other_errors) :
        IsNotFound(res.other_errors[i]) => ~InSomeBucket(res, res.other_errors[i])
\* analyze() has run once on the analyzer
AnalyzedOnce == prog = "errors" /\ pc \in {"analyzed", "exit"} /\ groupings <= 1

\* C1 as stated: after analyze(), the bucket sizes sum to total_errors minus the
\* number of ToolNotFound records, and no tool-not-found record is in a bucket.
C1_BucketsCountEveryFailure ==
    AnalyzedOnce =>
        /\ BucketTotal(result.by_category)
             = result.total_errors - Len(NotFoundRecords(result))
        /\ NoNotFoundInBuckets(result)
\* C1 amended: after the first analyze() of an analyzer, the bucket sizes sum to
\* the number of ToolFailure records classified as query, session or file
\* errors, which is total_errors minus the ToolNotFound records and minus the
\* ToolFailure records that fell into the catch-all; no record of other_errors,
\* tool-not-found or catch-all, is in a bucket.
C1_BucketsCountClassifiedFailures ==
    AnalyzedOnce =>
        /\ BucketTotal(result.by_category)
             = Len(result.query_syntax_errors) + Len(result.session_errors)
                 + Len(result.file_errors)
        /\ BucketTotal(result.by_category)
             = result.total_errors - Len(NotFoundRecords(result))
                 - Len(CatchAllRecords(result))
        /\ \A i \in 1..Len(result.other_errors) :
               ~InSomeBucket(result, result.other_errors[i])
C1_Witness ==
    /\ AnalyzedOnce /\ groupings = 1
    /\ BucketTotal(result.by_category) = 1
    /\ Len(NotFoundRecords(result)) = 1
    /\ Len(CatchAllRecords(result)) = 1
    /\ result.total_errors = 3

\* the lines of the corpus that pass the gate
GatedLines == {i \in 1..Len(corpus) : Gate(corpus[i])}
\* C7: after any sequence of lines, total_errors is the number of ToolFailure
\* records plus the number of ToolNotFound records extracted, each record
\* counted once; every ToolNotFound record adds one to by_tool['tool_not_found'];
\* classifying and grouping leave total_errors alone.
C7_TotalCountsEachRecordOnce ==
    prog = "errors" =>
        LET gated == GatedLines
            failures == {i \in gated : TOOL_FAIL_PATTERN(corpus[i]).ok}
            notfound == {i \in gated : TOOL_NOT_FOUND_PATTERN(corpus[i]).ok}
            named == {i \in failures :
                        TOOL_FAIL_PATTERN(corpus[i]).g1 = Cat.tool_not_found}
        IN  /\ result.total_errors = Cardinality(failures) + Cardinality(notfound)
            /\ NumRecords(result) = result.total_errors
            /\ Len(NotFoundRecords(result)) = Cardinality(notfound)
            /\ Len(CatchAllRecords(result)) <= Cardinality(failures)
            /\ Get(result.by_tool, Cat.tool_not_found, 0)
                 = Cardinality(notfound) + Cardinality(named)
C7_Witness ==
    /\ prog = "errors" /\ pc = "exit" /\ groupings = 2
    /\ Cardinality({i \in GatedLines : TOOL_FAIL_PATTERN(corpus[i]).ok}) = 2
    /\ Cardinality({i \in GatedLines : TOOL_NOT_FOUND_PATTERN(corpus[i]).ok}) = 1
    /\ result.total_errors = 3
    /\ Get(result.by_tool, Cat.tool_not_found, 0) = 1

RECURSIVE ExtractEveryLine(_, _)
\* _extract_errors applied to every line, the gate left out
ExtractEveryLine(res, lines) ==
    IF lines = <<>> THEN res
    ELSE ExtractEveryLine(_extract_errors(res, Head(lines)), Tail(lines))
Ungated == ExtractEveryLine(AnalysisResult, corpus)
SameExtraction(a, b) ==
    /\ a.total_errors = b.total_errors
    /\ a.by_tool = b.by_tool
    /\ \A f \in ListFields : a[f] = b[f]
\* the lines of the tool-failure shape that the gate drops
DroppedFailureLines ==
    {i \in 1..Len(corpus) : ~Gate(corpus[i]) /\ TOOL_FAIL_PATTERN(corpus[i]).ok}

\* C8 as stated: the 'shebe' gate only removes noise, every line of the
\* tool-failure or tool-not-found shape yields its record and is counted, so the
\* extracted records are the same with and without the gate.
C8_GateOnlyFiltersNoise ==
    prog = "errors" => SameExtraction(result, Ungated)
\* C8 amended: the gate never drops a line of the tool-not-found shape, so the
\* ToolNotFound records are the same with and without the gate; a line of the
\* tool-failure shape yields its record and is counted only when it contains
\* 'shebe' in some letter case, so the extraction with the gate is the
\* extraction without it less the failure lines that lack the word.
C8_GateKeepsNotFoundDropsUnmarkedFailures ==
    prog = "errors" =>
        LET without == Ungated
            dropped == DroppedFailureLines
        IN  /\ \A i \in 1..Len(corpus) :
                   TOOL_NOT_FOUND_PATTERN(corpus[i]).ok => Gate(corpus[i])
            /\ NotFoundRecords(result) = NotFoundRecords(without)
            /\ result.total_errors = without.total_errors - Cardinality(dropped)
            /\ dropped = {} => SameExtraction(result, without)
C8_Witness ==
    /\ prog = "errors" /\ pc = "analyzed"
    /\ Cardinality(DroppedFailureLines) = 1
    /\ Len(NotFoundRecords(result)) = 1
    /\ result.total_errors = 1
    /\ Ungated.total_errors = 2

\* C9: running the grouping step a second time over the same classified errors
\* leaves every by_category bucket with the contents and size it had after the
\* first run.
C9_GroupingIdempotent ==
    [][(prog = "errors" /\ groupings >= 1 /\ groupings' = groupings + 1)
          => result'.by_category = result.by_category]_vars

NoShape(line) ==
    /\ ~TOOL_FAIL_PATTERN(line).ok
    /\ ~TOOL_NOT_FOUND_PATTERN(line).ok
\* C10: processing a single log line produces at most one record and adds at
\* most one to total_errors, and a line matching no pattern produces none and
\* leaves the aggregate unchanged.
C10_AtMostOneRecordPerLine ==
    [][(prog = "errors" /\ pc = "files" /\ nlines' = nlines + 1) =>
          /\ NumRecords(result') <= NumRecords(result) + 1
          /\ result'.total_errors <= result.total_errors + 1
          /\ NoShape(corpus'[Len(corpus')]) => result' = result]_vars

\* the labels of the recommendations, in the order the code makes them
Labels ==
    <<"Query Parsing - URL Patterns", "Query Parsing - Code Annotations",
      "Query Parsing - Field Prefixes", "Query Parsing - Special Characters",
      "Session Management - Auto Re-index", "Session Management - Schema Migration",
      "File Access - Not Indexed", "Server Availability">>
\* the bucket behind each label
BucketKeys ==
    <<Cat.query_ \o Cat.url_pattern, Cat.query_ \o Cat.annotation,
      Cat.query_ \o Cat.field_prefix, Cat.query_ \o Cat.special_chars,
      Cat.session_ \o Cat.session_exists, Cat.session_ \o Cat.schema_mismatch,
      Cat.file_ \o Cat.file_not_indexed>>
Position(label) == CHOOSE k \in 1..Len(Labels) : Labels[k] = label
\* 1 query syntax, 2 session, 3 file access, 4 tool availability
Family(label) ==
    IF Position(label) <= 4 THEN 1
    ELSE IF Position(label) <= 6 THEN 2
    ELSE IF Position(label) = 7 THEN 3 ELSE 4
\* the number of occurrences a recommendation stands for
Occurrences(res, label) ==
    IF Position(label) <= Len(BucketKeys)
    THEN Len(Get(res.by_category, BucketKeys[Position(label)], <<>>))
    ELSE Get(res.by_tool, Cat.tool_not_found, 0)
Improved == prog = "generate_improvements" /\ pc = "returned"
Recommended(label) == \E i \in 1..Len(ret) : ret[i].category = label

\* C11: every recommendation of generate_improvements stands for a bucket, or
\* for the tool_not_found counter, with a count greater than zero, and a result
\* with no errors yields no recommendation.
C11_NoRecommendationForEmptyBucket ==
    Improved =>
        /\ \A i \in 1..Len(ret) :
              /\ ret[i].category \in {Labels[k] : k \in 1..Len(Labels)}
              /\ Occurrences(result, ret[i].category) > 0
              /\ ret[i].issue = Occurrences(result, ret[i].category)
        /\ result.total_errors = 0 => ret = <<>>
C11_Witness ==
    /\ Improved
    /\ arg[1] = 0 /\ arg[2] = 2 /\ arg[5] = 0
    /\ Occurrences(result, Labels[1]) = 0
    /\ ~Recommended(Labels[1]) /\ Recommended(Labels[2])
    /\ ~Recommended(Labels[8])

\* C12: the recommendations come in a fixed order, the query-syntax family
\* first, then session, then file access, then tool availability, whatever the
\* counts of the buckets.
C12_FixedCategoryOrder ==
    Improved =>
        \A i, j \in 1..Len(ret) :
            i < j => /\ Family(ret[i].category) <= Family(ret[j].category)
                     /\ Position(ret[i].category) < Position(ret[j].category)
C12_Witness ==
    /\ Improved
    /\ Len(ret) = 4
    /\ Occurrences(result, ret[1].category) = 1
    /\ Occurrences(result, ret[2].category) = 2
    /\ Occurrences(result, ret[4].category) = 2
    /\ Family(ret[1].category) = 1 /\ Family(ret[2].category) = 2
    /\ Family(ret[3].category) = 3 /\ Family(ret[4].category) = 4


\* the condition under which the specification keeps a session
Tracked(s) ==
    s # NoStats /\ (s.serena_calls > 0 \/ s.shebe_calls > 0 \/ s.builtin_calls > 5)
\* the step of analyze() on one session file (lines 86-90)
AnalyzesSession == prog = "context" /\ pc = "files" /\ nfiles' = nfiles + 1

\* C13: a session is retained in sessions only if it has a serena call, a
\* shebe call, or more than 5 built-in calls; every other session, one that
\* only called other MCP providers included, is discarded.  Stated on the
\* step that analyses a session file: the list grows only by the session just
\* analysed, which is then a tracked one, and an untracked session leaves the
\* list as it was.
C13_RetainedOnlyIfTracked ==
    [][AnalyzesSession =>
        /\ sessions' # sessions =>
              /\ Tracked(cur')
              /\ sessions' = Append(sessions, cur')
        /\ ~Tracked(cur') => sessions' = sessions]_vars
\* the first session file held one serena call and was retained; the second
\* held a call of another MCP provider and 4 built-in calls, was returned by
\* _analyze_session and was discarded
C13_Witness ==
    /\ prog = "context" /\ pc = "files" /\ nfiles = 2
    /\ Len(sessions) = 1
    /\ sessions[1].session_id = 1
    /\ sessions[1].serena_calls = 1
    /\ cur # NoStats
    /\ cur.session_id = 2
    /\ cur.other_mcp_calls = 1
    /\ cur.builtin_calls = 4
    /\ cur.serena_calls = 0 /\ cur.shebe_calls = 0

\* the context analysis returned the report of an existing directory
Reported == prog = "context" /\ exists /\ pc \in {"analyzed", "exit"}
\* the denominator group of the size ratio
ShebeOnly == SelectSeq(sessions, IsShebeOnly)

\* C14: serena_vs_shebe_size_ratio guards against division by zero: whenever
\* the shebe-only group is empty or has average size zero the ratio is
\* reported as 0 and no exception is raised, for any retained sessions.  A
\* division by zero would leave a quotient with denominator 0.
C14_RatioGuarded ==
    Reported =>
        LET ratio == report.comparison.serena_vs_shebe_size_ratio
        IN  /\ ratio.den # 0
            /\ exc = "none"
            /\ (ShebeOnly = <<>> \/ SumField(ShebeOnly, "file_size_bytes") = 0)
                   => ratio = Zero
\* a serena-only session of positive size and a shebe-only session of size 0
\* were retained: the shebe-only group is not empty, its average size is
\* zero, and the report was printed with ratio 0
C14_Witness ==
    /\ Reported /\ pc = "exit"
    /\ ShebeOnly # <<>>
    /\ SumField(ShebeOnly, "file_size_bytes") = 0
    /\ \E i \in 1..Len(sessions) :
           IsSerenaOnly(sessions[i]) /\ sessions[i].file_size_bytes > 0
    /\ report.comparison.serena_vs_shebe_size_ratio = Zero
    /\ report.comparison.avg_log_size_serena_sessions_kb.num > 0
    /\ report.comparison.avg_log_size_shebe_sessions_kb.num = 0

\* the whitespace-delimited tokens of the classified query
Tokens == SplitWs(arg)
Classified == prog = "_classify_query_error" /\ pc = "returned"
\* some token starts with '@'
HasAtToken == \E k \in 1..Len(Tokens) : Tokens[k][1] = "@"
\* some token holds the text '@Router'
HasRouter == \E k \in 1..Len(Tokens) : Contains(Tokens[k], Sub.at_Router)
\* the first token holds the character '@'
FirstTokenHasAt ==
    Tokens # <<>> /\ \E i \in 1..Len(Tokens[1]) : Tokens[1][i] = "@"

\* C15 as stated: a query that is not of the URL-path shape and has an
\* @-prefixed token anywhere among its tokens is classified as annotation, and
\* a query with no such token is not.
C15_AnnotationForAnyAtToken ==
    Classified =>
        /\ (~UrlLike(arg) /\ HasAtToken) => ret = Cat.annotation
        /\ ~HasAtToken => ret # Cat.annotation
\* C15: a classified query is annotation exactly when it is not of the
\* URL-path shape and either holds the text '@Router' or has '@' somewhere in
\* its first token; an @-prefixed token in a later position does not count,
\* and rule 2 fires before the assignment, field_prefix, special_chars and
\* complex_phrase rules.
C15_AnnotationForRouterOrFirstToken ==
    Classified =>
        (ret = Cat.annotation <=> (~UrlLike(arg) /\ (HasRouter \/ FirstTokenHasAt)))
\* a query that starts with '@Param' and holds ':=' was classified annotation
C15_Witness ==
    /\ Classified /\ ret = Cat.annotation
    /\ Tokens # <<>> /\ Tokens[1][1] = "@"
    /\ ~HasRouter
    /\ Contains(arg, Sub.assign)

\* the counts of a result: total_errors, every by_tool count, and the size of
\* every by_category bucket
Counts(res) ==
    [total_errors |-> res.total_errors,
     by_tool |-> res.by_tool,
     sizes |-> [k \in DOMAIN res.by_category |-> Len(res.by_category[k])]]
Analyzed == prog = "analyze" /\ pc = "returned"

\* C16: final counts are order-independent: for two orderings of the same
\* documents and of the lines within them, total_errors, every by_tool count
\* and the size of every by_category bucket are the same.
C16_CountsOrderIndependent ==
    Analyzed => Counts(result) = Counts(ret)
\* two documents with different failures were read in both orders
C16_Witness ==
    /\ Analyzed
    /\ NumDocs(arg[1]) = 2
    /\ arg[1].lines # arg[2].lines
    /\ result.total_errors = 2
    /\ Cardinality(DOMAIN result.by_tool) = 2
    /\ Cardinality(DOMAIN result.by_category) = 2
    /\ ret.total_errors = 2

\* the flags and the call list of a session agree with its counters
Consistent(s) ==
    /\ s.has_serena <=> s.serena_calls > 0
    /\ s.has_shebe <=> s.shebe_calls > 0
    /\ Len(s.tool_calls) = s.serena_calls + s.shebe_calls
\* the number of retained sessions with (serena) and (shebe) calls or not
NumSessions(serena, shebe) ==
    Cardinality({i \in 1..Len(sessions) :
        /\ (sessions[i].serena_calls > 0) = serena
        /\ (sessions[i].shebe_calls > 0) = shebe})

\* C17: serena-only, shebe-only, both and neither partition the retained
\* sessions: the four summary counts sum to total_sessions_analyzed, and for
\* every session has_serena holds exactly when serena_calls > 0, has_shebe
\* exactly when shebe_calls > 0, and len(tool_calls) = serena_calls +
\* shebe_calls.
C17_GroupsPartitionSessions ==
    prog = "context" =>
        /\ \A i \in 1..Len(sessions) : Consistent(sessions[i])
        /\ cur # NoStats => Consistent(cur)
        /\ Reported =>
              /\ report.summary.total_sessions_analyzed = Len(sessions)
              /\ report.summary.sessions_with_serena_only
                   + report.summary.sessions_with_shebe_only
                   + report.summary.sessions_with_both
                   + report.summary.sessions_with_neither
                   = report.summary.total_sessions_analyzed
              /\ report.summary.sessions_with_serena_only = NumSessions(TRUE, FALSE)
              /\ report.summary.sessions_with_shebe_only = NumSessions(FALSE, TRUE)
              /\ report.summary.sessions_with_both = NumSessions(TRUE, TRUE)
              /\ report.summary.sessions_with_neither = NumSessions(FALSE, FALSE)
\* a session with calls of both providers and a serena-only session were
\* reported
C17_Witness ==
    /\ Reported
    /\ report.summary.total_sessions_analyzed = 2
    /\ report.summary.sessions_with_both = 1
    /\ report.summary.sessions_with_serena_only = 1
    /\ \E i \in 1..Len(sessions) :
           sessions[i].has_serena /\ sessions[i].has_shebe
           /\ Len(sessions[i].tool_calls) >= 2
====
